---- MODULE Spec2Model ----
(***************************************************************************)
(* Spellbook: the SQLite index of a knowledge vault (src/spellbook/index.py *)
(* and the standalone assets/scripts/rebuild_index.py).                    *)
(*                                                                         *)
(* The store index.db is modelled as one record `db`: the set of tables    *)
(* that exist, the rows of every table, and the AUTOINCREMENT counter of   *)
(* subagent_calls.  Rows are sets of records; primary keys are enforced by *)
(* the operators that insert, exactly where the SQL statements enforce     *)
(* them, never by the data structure.                                      *)
(***************************************************************************)
EXTENDS Integers, Sequences, FiniteSets, TLC

VARIABLES
    files,      \* <vault>/log/, the directory the rebuilds scan: path -> file content or NoFile
    db,         \* <vault>/index.db, the store that index.py opens
    call,       \* the last operation: [op, arg, ret, rep]
    indexed,    \* history: documents passed to add_document since the entity tables were created empty
    dup,        \* history: some document was passed to add_document more than once
    report,     \* what the last rebuild printed: per-file lines, counts, how it ended
    transcript, \* the session transcript: an append-only sequence of entries
    checkpoint, \* the vault's checkpoint: last captured timestamp, 0 when absent
    buffer,     \* knowledge/buffer/: the buffer records written so far
    managed,    \* the files of the vault that the installer manages
    klog,       \* knowledge/log/: path -> file content or NoFile
    kdb,        \* knowledge/index.db
    rebuilding, \* the rebuild_index run in progress: its position and what it has printed
    capturing   \* the usage captures in progress: the transactions each has still to commit

vars == <<files, db, call, indexed, dup, report, transcript, checkpoint, buffer, managed,
          klog, kdb, rebuilding, capturing>>

-----------------------------------------------------------------------------
(* Bounds of the model                                                     *)

MaxTs == 2          \* timestamps are 1..MaxTs (0 stands for None / absent)
MaxEnts == 2        \* entity references in a document passed to add_document
MaxFileEnts == 1    \* entity references in the metadata block of a vault file
MaxIndexed == 2     \* distinct documents passed to add_document in one run
MaxTok == 1         \* token and message counters are 0..MaxTok
MaxCalls == 2       \* subagent calls computed from one transcript
MaxRowId == 4       \* cap on the AUTOINCREMENT counter of subagent_calls
NumPaths == 2       \* paths under log/ that may hold a file
MaxBatchEnts == 2   \* entries of a list-form entities block in a rebuild batch
MaxMapKeys == 2     \* type keys of a mapping-form entities block
MaxTranscript == 3  \* entries of a transcript
MaxBuffer == 2      \* buffer records, for the captures that are killed and run again

Times == 1..MaxTs

-----------------------------------------------------------------------------
(* Names.  A name is a sequence of code points, so that the NOCASE         *)
(* collation of SQLite can be computed the way SQLite computes it.         *)

NameSa == <<83, 97>>        \* "Sa"
NameSaLower == <<115, 97>>  \* "sa"
NameBo == <<66, 111>>       \* "Bo"

Names == {NameSa, NameSaLower, NameBo}

\* SQLite NOCASE folds the 26 upper case ASCII letters and nothing else.
FoldChar(c) == IF c >= 65 /\ c <= 90 THEN c + 32 ELSE c

NoCase(name) == [i \in DOMAIN name |-> FoldChar(name[i])]

\* COLLATE NOCASE equality of two TEXT values.
NoCaseEq(a, b) == NoCase(a) = NoCase(b)

-----------------------------------------------------------------------------
(* schema.py                                                               *)

EntityType == {"project", "person", "tool", "repo", "concept", "org"}

\* ArchiveDoc, restricted to the fields the index reads: id, ts, entities.
\* entities is a list of EntityRef(name, type).
EntityRefs(types) == [name : Names, type : types]

SeqsUpTo(S, n) == UNION {[1..k -> S] : k \in 0..n}

Range(f) == {f[i] : i \in DOMAIN f}

InputTypes == {"person", "tool"}

DocIds == {"a", "x"}

ArchiveDocs == [id : DocIds, ts : Times, entities : SeqsUpTo(EntityRefs(InputTypes), MaxEnts)]

\* SessionUsage.  A datetime is one of Times, None is 0; a missing slug is "".
\* The inputs: one vault or another, totals that are all 0 or all MaxTok but
\* for at most one counter.
SessionIds == {"s1", "s2"}

Counters == {"total_input_tokens", "total_output_tokens", "total_cache_creation",
             "total_cache_read", "total_messages"}

UsageTotals ==
    {[c \in Counters |-> IF c = k THEN y ELSE x] : k \in Counters, x \in {0, MaxTok}, y \in 0..MaxTok}

SessionUsage(id, vault_path, started_at, ended_at, totals, slug) ==
    [id |-> id, vault_path |-> vault_path, started_at |-> started_at, ended_at |-> ended_at,
     total_input_tokens |-> totals["total_input_tokens"],
     total_output_tokens |-> totals["total_output_tokens"],
     total_cache_creation |-> totals["total_cache_creation"],
     total_cache_read |-> totals["total_cache_read"],
     total_messages |-> totals["total_messages"],
     slug |-> slug]

SessionUsages ==
    {SessionUsage(id, v, 1, e, t, "") :
        id \in SessionIds, v \in {"/v", "/w"}, e \in {0, MaxTs}, t \in UsageTotals}

\* SubagentCall.  The inputs differ in the agent and in the token total.
SubagentCall(session_id, agent_id, total_tokens) ==
    [session_id |-> session_id, agent_id |-> agent_id, agent_type |-> "Archivist",
     description |-> "archive", prompt_preview |-> "archive the session",
     started_at |-> 1, ended_at |-> MaxTs, duration_ms |-> 0,
     input_tokens |-> 0, output_tokens |-> 0, cache_creation |-> 0, cache_read |-> 0,
     total_tokens |-> total_tokens, tool_use_count |-> 0, status |-> "completed"]

AgentIds == {"a1", "a2"}

SubagentCalls(session_id) ==
    {SubagentCall(session_id, a, t) : a \in AgentIds, t \in 0..MaxTok}

-----------------------------------------------------------------------------
(* index.db                                                                *)

EntityTables == {"entities", "refs", "entity_aliases"}
ContextTables == {"sessions", "subagent_calls"}

\* No index.db file: no table, no row.
NoDb == [tables |-> {}, entities |-> {}, refs |-> {}, entity_aliases |-> {},
         sessions |-> {}, subagent_calls |-> {}, seq |-> 0]

\* CREATE TABLE IF NOT EXISTS for the three tables of SCHEMA_SQL.
init_schema(d) == [d EXCEPT !.tables = @ \cup EntityTables]

\* CREATE TABLE IF NOT EXISTS for the two tables of CONTEXT_SCHEMA_SQL.
init_context_schema(d) == [d EXCEPT !.tables = @ \cup ContextTables]

\* INSERT INTO entities ... ON CONFLICT(name) DO UPDATE SET last_mentioned = excluded.last_mentioned
\* (name is TEXT PRIMARY KEY with the default BINARY collation: case-sensitive).
UpsertEntity(rows, name, type, ts) ==
    IF \E r \in rows : r.name = name
    THEN {IF r.name = name THEN [r EXCEPT !.last_mentioned = ts] ELSE r : r \in rows}
    ELSE rows \cup {[name |-> name, type |-> type, created |-> ts, last_mentioned |-> ts]}

\* (a refs table without its primary key: every INSERT adds a row)
InsertRefUnkeyed(rows, entity, doc_id, ts) ==
    rows \cup {[entity |-> entity, doc_id |-> doc_id, ts |-> ts]}

\* INSERT OR IGNORE INTO refs (entity, doc_id, ts), PRIMARY KEY (entity, doc_id).
InsertOrIgnoreRef(rows, entity, doc_id, ts) ==
    IF \E r \in rows : r.entity = entity /\ r.doc_id = doc_id
    THEN rows
    ELSE rows \cup {[entity |-> entity, doc_id |-> doc_id, ts |-> ts]}

\* The body of the loop of add_document for the i-th entity reference.
AddEntityRef(d, doc, i) ==
    [d EXCEPT !.entities = UpsertEntity(@, doc.entities[i].name, doc.entities[i].type, doc.ts),
              !.refs = InsertOrIgnoreRef(@, doc.entities[i].name, doc.id, doc.ts)]

RECURSIVE AddEntityRefs(_, _, _)
AddEntityRefs(d, doc, i) ==
    IF i > Len(doc.entities) THEN d
    ELSE AddEntityRefs(AddEntityRef(d, doc, i), doc, i + 1)

\* add_document(conn, doc): every entity reference of doc in list order, then commit.
add_document(d, doc) == AddEntityRefs(d, doc, 1)


\* add_entity_alias(conn, alias, canonical, entity_type) -> bool.
\* alias is TEXT PRIMARY KEY COLLATE NOCASE: the INSERT raises
\* sqlite3.IntegrityError, caught and turned into False, when a row whose alias
\* is NOCASE-equal exists.  Foreign keys are not enforced (connect() never sets
\* PRAGMA foreign_keys), so canonical is not checked against entities.
\* (a primary key without COLLATE NOCASE)
AliasConflictCaseSensitive(rows, alias) == \E r \in rows : r.alias = alias

AliasConflict(rows, alias) == \E r \in rows : NoCaseEq(r.alias, alias)

add_entity_alias(d, alias, canonical, entity_type) ==
    IF AliasConflict(d.entity_aliases, alias)
    THEN [db |-> d, ret |-> "False"]
    ELSE [db |-> [d EXCEPT !.entity_aliases = @ \cup
                     {[alias |-> alias, canonical |-> canonical, entity_type |-> entity_type]}],
          ret |-> "True"]

\* get_canonical_name(conn, name) -> str:
\* SELECT canonical FROM entity_aliases WHERE alias = ? COLLATE NOCASE; fetchone().
get_canonical_name(d, name) ==
    IF \E r \in d.entity_aliases : NoCaseEq(r.alias, name)
    THEN (CHOOSE r \in d.entity_aliases : NoCaseEq(r.alias, name)).canonical
    ELSE name

\* datetime.isoformat() if the value is set, else None.  The model identifies
\* an instant with its ISO text; None stays None (0).
IsoOrNone(t) == IF t # 0 THEN t ELSE 0

\* (the totals of the new data added to the stored ones)
upsert_session_accumulating(d, s) ==
    IF \E r \in d.sessions : r.id = s.id
    THEN [d EXCEPT !.sessions =
             {IF r.id = s.id
              THEN [r EXCEPT !.ended_at = s.ended_at,
                             !.total_input_tokens = @ + s.total_input_tokens,
                             !.total_output_tokens = @ + s.total_output_tokens,
                             !.total_cache_creation = @ + s.total_cache_creation,
                             !.total_cache_read = @ + s.total_cache_read,
                             !.total_messages = @ + s.total_messages,
                             !.slug = s.slug]
              ELSE r : r \in @}]
    ELSE [d EXCEPT !.sessions = @ \cup {s}]

\* (total_cache_read left out of DO UPDATE SET)
upsert_session_stale_cache_read(d, s) ==
    IF \E r \in d.sessions : r.id = s.id
    THEN [d EXCEPT !.sessions =
             {IF r.id = s.id
              THEN [r EXCEPT !.ended_at = s.ended_at,
                             !.total_input_tokens = s.total_input_tokens,
                             !.total_output_tokens = s.total_output_tokens,
                             !.total_cache_creation = s.total_cache_creation,
                             !.total_messages = s.total_messages,
                             !.slug = s.slug]
              ELSE r : r \in @}]
    ELSE [d EXCEPT !.sessions = @ \cup {s}]

\* upsert_session(conn, session): INSERT ... ON CONFLICT(id) DO UPDATE SET
\* ended_at, the five totals and slug; vault_path and started_at keep the
\* values of the first insert.
upsert_session(d, s) ==
    LET new == [s EXCEPT !.started_at = IsoOrNone(@), !.ended_at = IsoOrNone(@)]
    IN  IF \E r \in d.sessions : r.id = s.id
        THEN [d EXCEPT !.sessions =
                 {IF r.id = s.id
                  THEN [r EXCEPT !.ended_at = new.ended_at,
                                 !.total_input_tokens = new.total_input_tokens,
                                 !.total_output_tokens = new.total_output_tokens,
                                 !.total_cache_creation = new.total_cache_creation,
                                 !.total_cache_read = new.total_cache_read,
                                 !.total_messages = new.total_messages,
                                 !.slug = new.slug]
                  ELSE r : r \in @}]
        ELSE [d EXCEPT !.sessions = @ \cup {new}]

\* (the first two bound values in the wrong order: agent_id, session_id)
insert_subagent_call_swapped(d, c) ==
    [d EXCEPT !.seq = @ + 1,
              !.subagent_calls = @ \cup
                  {[id |-> d.seq + 1,
                    session_id |-> c.agent_id, agent_id |-> c.session_id,
                    agent_type |-> c.agent_type, description |-> c.description,
                    prompt_preview |-> c.prompt_preview,
                    started_at |-> c.started_at, ended_at |-> c.ended_at,
                    duration_ms |-> c.duration_ms,
                    input_tokens |-> c.input_tokens, output_tokens |-> c.output_tokens,
                    cache_creation |-> c.cache_creation, cache_read |-> c.cache_read,
                    total_tokens |-> c.total_tokens, tool_use_count |-> c.tool_use_count,
                    status |-> c.status]}]

\* (description and prompt_preview bound in the wrong order)
insert_subagent_call_preview_as_description(d, c) ==
    [d EXCEPT !.seq = @ + 1,
              !.subagent_calls = @ \cup
                  {[id |-> d.seq + 1,
                    session_id |-> c.session_id, agent_id |-> c.agent_id,
                    agent_type |-> c.agent_type, description |-> c.prompt_preview,
                    prompt_preview |-> c.description,
                    started_at |-> IsoOrNone(c.started_at), ended_at |-> IsoOrNone(c.ended_at),
                    duration_ms |-> c.duration_ms,
                    input_tokens |-> c.input_tokens, output_tokens |-> c.output_tokens,
                    cache_creation |-> c.cache_creation, cache_read |-> c.cache_read,
                    total_tokens |-> c.total_tokens, tool_use_count |-> c.tool_use_count,
                    status |-> c.status]}]

\* insert_subagent_call(conn, call): a plain INSERT; id INTEGER PRIMARY KEY
\* AUTOINCREMENT takes the next value of the table's sequence.
insert_subagent_call(d, c) ==
    [d EXCEPT !.seq = @ + 1,
              !.subagent_calls = @ \cup
                  {[id |-> d.seq + 1,
                    session_id |-> c.session_id, agent_id |-> c.agent_id,
                    agent_type |-> c.agent_type, description |-> c.description,
                    prompt_preview |-> c.prompt_preview,
                    started_at |-> IsoOrNone(c.started_at), ended_at |-> IsoOrNone(c.ended_at),
                    duration_ms |-> c.duration_ms,
                    input_tokens |-> c.input_tokens, output_tokens |-> c.output_tokens,
                    cache_creation |-> c.cache_creation, cache_read |-> c.cache_read,
                    total_tokens |-> c.total_tokens, tool_use_count |-> c.tool_use_count,
                    status |-> c.status]}]

\* The usage capture's replacement of a session's rows, as the specification
\* describes it: DELETE FROM subagent_calls WHERE session_id = ?
delete_subagent_calls(d, session_id) ==
    [d EXCEPT !.subagent_calls = {r \in @ : r.session_id # session_id}]

RECURSIVE InsertCalls(_, _, _)
InsertCalls(d, cs, i) ==
    IF i > Len(cs) THEN d ELSE InsertCalls(insert_subagent_call(d, cs[i]), cs, i + 1)

\* Delete the session's rows, then insert_subagent_call for every computed call.
store_subagent_calls(d, session_id, cs) ==
    InsertCalls(delete_subagent_calls(d, session_id), cs, 1)

-----------------------------------------------------------------------------
(* The vault's log/ directory and the two rebuild drivers                  *)

Paths == 1..NumPaths

\* Path p is log/<Stems[p]>.md; the paths sort as their numbers do.
Stems == <<"a", "b", "c", "d">>

RawTypes == {"person", "widget"}

FileNames == {NameSa, NameBo}

RawRefs == SeqsUpTo([name : FileNames, type : RawTypes], MaxFileEnts)

\* The entities of a metadata block in the list form, up to MaxBatchEnts entries.
BatchRefs == SeqsUpTo([name : FileNames, type : RawTypes], MaxBatchEnts)

\* The entities of a metadata block in the mapping form: the items of the
\* mapping in document order, each a type key with its list of names.
RawMaps ==
    {m \in SeqsUpTo([type : RawTypes, names : SeqsUpTo(FileNames, MaxFileEnts) \ {<<>>}], MaxMapKeys) :
        \A i, j \in DOMAIN m : i # j => m[i].type # m[j].type}

\* What a path holds: nothing, a text without a metadata block, a metadata
\* block that is not YAML, one that is YAML for a plain scalar, or one that is
\* a mapping with an optional id (""), an optional ts (0) and entities in the
\* list form (ents) or in the mapping form (emap).
NoFile == [kind |-> "absent", id |-> "", ts |-> 0, form |-> "list", ents |-> <<>>, emap |-> <<>>]
NoFrontmatter == [kind |-> "nofm", id |-> "", ts |-> 0, form |-> "list", ents |-> <<>>, emap |-> <<>>]
BadYaml == [kind |-> "badyaml", id |-> "", ts |-> 0, form |-> "list", ents |-> <<>>, emap |-> <<>>]
ScalarFrontmatter == [kind |-> "scalar", id |-> "", ts |-> 0, form |-> "list", ents |-> <<>>, emap |-> <<>>]

FileContents ==
    {NoFile, NoFrontmatter} \cup
    [kind : {"map"}, id : {"", "a"}, ts : 0..MaxTs, form : {"list"}, ents : RawRefs, emap : {<<>>}]

\* The files of a batch: every kind of content, both forms of entities.
BatchContents ==
    {NoFile, NoFrontmatter, BadYaml, ScalarFrontmatter} \cup
    [kind : {"map"}, id : {""}, ts : 0..MaxTs, form : {"list"}, ents : BatchRefs, emap : {<<>>}] \cup
    [kind : {"map"}, id : {""}, ts : 0..MaxTs, form : {"dict"}, ents : {<<>>}, emap : RawMaps \ {<<>>}]

\* parse_document returns None.
NoDoc == [id |-> "", ts |-> 0, entities |-> <<>>]

\* parse_document raises: frontmatter.get on a value that is not a mapping
\* (AttributeError), outside every try block.
ParseRaises == [id |-> "", ts |-> -1, entities |-> <<>>]

RECURSIVE ValidRefs(_, _)
ValidRefs(ents, i) ==
    IF i > Len(ents) THEN <<>>
    ELSE (IF ents[i].type \in EntityType THEN <<ents[i]>> ELSE <<>>) \o ValidRefs(ents, i + 1)

\* Format A, one item of the mapping: an EntityRef for every name under a
\* type key that EntityType accepts.
ItemRefs(item) ==
    IF item.type \in EntityType
    THEN [k \in DOMAIN item.names |-> [name |-> item.names[k], type |-> item.type]]
    ELSE <<>>

RECURSIVE MappingRefs(_, _)
MappingRefs(emap, i) ==
    IF i > Len(emap) THEN <<>> ELSE ItemRefs(emap[i]) \o MappingRefs(emap, i + 1)

\* (the timestamp not required)
parse_document_no_ts_check(p, c) ==
    IF c.kind \in {"nofm", "badyaml"} THEN NoDoc
    ELSE IF c.kind = "scalar" THEN ParseRaises
    ELSE [id |-> IF c.id = "" THEN Stems[p] ELSE c.id,
          ts |-> IF c.ts = 0 THEN 1 ELSE c.ts,
          entities |-> IF c.form = "dict" THEN MappingRefs(c.emap, 1) ELSE ValidRefs(c.ents, 1)]

\* parse_document(doc_path): None without a metadata block, with one that is
\* not YAML, or without a timestamp; entries whose type is no EntityType are
\* skipped; id defaults to the stem.
parse_document(p, c) ==
    IF c.kind \in {"nofm", "badyaml"} THEN NoDoc
    ELSE IF c.kind = "scalar" THEN ParseRaises
    ELSE IF c.ts = 0 THEN NoDoc
    ELSE [id |-> IF c.id = "" THEN Stems[p] ELSE c.id,
          ts |-> c.ts,
          entities |-> IF c.form = "dict" THEN MappingRefs(c.emap, 1) ELSE ValidRefs(c.ents, 1)]

\* log_path.glob("**/*.md"): the files, in whatever order the file system lists them.
Glob(fs) ==
    LET present == {p \in DOMAIN fs : fs[p].kind # "absent"}
    IN  {s \in [1..Cardinality(present) -> present] : Range(s) = present}

\* sorted(paths)
RECURSIVE Sorted(_)
Sorted(s) ==
    IF Len(s) = 0 THEN <<>>
    ELSE LET m == CHOOSE i \in DOMAIN s : \A j \in DOMAIN s : s[i] <= s[j]
         IN  <<s[m]>> \o Sorted([k \in 1..(Len(s) - 1) |-> IF k < m THEN s[k] ELSE s[k + 1]])

\* (the glob taken as it comes, without sorted())
ScanOrdersUnsorted(fs) == Glob(fs)

\* The orders in which rebuild_index may visit the files: sorted(log_path.glob("**/*.md")).
ScanOrders(fs) == {Sorted(g) : g \in Glob(fs)}

\* DROP TABLE IF EXISTS refs, entity_aliases, entities.
DropEntityTables(d) ==
    [d EXCEPT !.tables = @ \ EntityTables, !.refs = {}, !.entity_aliases = {}, !.entities = {}]

\* What a rebuild prints: a line per visited file, the counts of the summary,
\* and how the run ended ("done", or the exception or exit that ended it).
NoLines == [p \in Paths |-> ""]

NoReport == [status |-> "none", lines |-> NoLines, docs |-> 0, entities |-> 0, errors |-> 0]

\* A run of a rebuild: the store, the report and the documents indexed so far.
Run(d, r, added) == [db |-> d, report |-> r, added |-> added]

\* (a rejected file printed but not counted)
IndexFileErrorsUncounted(run, p, c) ==
    LET doc == parse_document(p, c)
    IN  IF doc = ParseRaises
        THEN Run(run.db, [run.report EXCEPT !.status = "AttributeError"], run.added)
        ELSE IF doc # NoDoc
        THEN Run(add_document(run.db, doc),
                 [run.report EXCEPT !.docs = @ + 1, !.lines[p] = "ok"],
                 Append(run.added, doc))
        ELSE Run(run.db, [run.report EXCEPT !.lines[p] = "parse error"], run.added)

\* The body of the loop of rebuild_index for the file at path p.
IndexFile(run, p, c) ==
    LET doc == parse_document(p, c)
    IN  IF doc = ParseRaises
        THEN Run(run.db, [run.report EXCEPT !.status = "AttributeError"], run.added)
        ELSE IF doc # NoDoc
        THEN Run(add_document(run.db, doc),
                 [run.report EXCEPT !.docs = @ + 1, !.lines[p] = "ok"],
                 Append(run.added, doc))
        ELSE Run(run.db, [run.report EXCEPT !.errors = @ + 1, !.lines[p] = "parse error"], run.added)

\* The loop of rebuild_index from the i-th file on; an exception ends it.
RECURSIVE IndexFiles(_, _, _, _)
IndexFiles(run, fs, order, i) ==
    IF run.report.status # "none" THEN run
    ELSE IF i > Len(order)
    THEN Run(run.db,
             [run.report EXCEPT !.status = "done", !.entities = Cardinality(run.db.entities)],
             run.added)
    ELSE IndexFiles(IndexFile(run, order[i], fs[order[i]]), fs, order, i + 1)

\* rebuild_index(vault_path), visiting the files in the given order.
rebuild_index(d, fs, order) ==
    IndexFiles(Run(init_schema(DropEntityTables(d)), NoReport, <<>>), fs, order, 1)

\* rebuild_index.py: db_path.unlink(missing_ok=True), then its own SCHEMA_SQL
\* (entities and refs only).
ScriptFreshDb == [NoDb EXCEPT !.tables = {"entities", "refs"}]

\* rebuild_index.py, the loop body for one {name, type} entry: entries without
\* a name or a type are skipped, the type is not checked against EntityType.
RECURSIVE ScriptIndexRefs(_, _, _, _, _)
ScriptIndexRefs(d, doc_id, ts, ents, i) ==
    IF i > Len(ents) THEN d
    ELSE ScriptIndexRefs(
             [d EXCEPT !.entities = UpsertEntity(@, ents[i].name, ents[i].type, ts),
                       !.refs = InsertOrIgnoreRef(@, ents[i].name, doc_id, ts)],
             doc_id, ts, ents, i + 1)

\* rebuild_index.py, the body of the file loop.  Iterating the mapping form
\* yields its keys, which are no dicts, so every one of them is skipped.
ScriptIndexFile(run, p, c) ==
    IF c.kind \in {"nofm", "badyaml"}
    THEN Run(run.db, [run.report EXCEPT !.lines[p] = "no frontmatter"], run.added)
    ELSE IF c.kind = "scalar"
    THEN Run(run.db, [run.report EXCEPT !.status = "AttributeError"], run.added)
    ELSE IF c.ts = 0
    THEN Run(run.db, [run.report EXCEPT !.lines[p] = "no timestamp"], run.added)
    ELSE Run(ScriptIndexRefs(run.db, IF c.id = "" THEN Stems[p] ELSE c.id, c.ts,
                             IF c.form = "dict" THEN <<>> ELSE c.ents, 1),
             [run.report EXCEPT !.docs = @ + 1, !.lines[p] = "ok"],
             run.added)

\* The file loop and the single commit after it: an exception in the loop ends
\* the process before the commit, and the rows inserted so far are lost.
RECURSIVE ScriptIndexFiles(_, _, _, _)
ScriptIndexFiles(run, fs, order, i) ==
    IF run.report.status # "none" THEN Run(ScriptFreshDb, run.report, run.added)
    ELSE IF i > Len(order)
    THEN Run(run.db,
             [run.report EXCEPT !.status = "done", !.entities = Cardinality(run.db.entities)],
             run.added)
    ELSE ScriptIndexFiles(ScriptIndexFile(run, order[i], fs[order[i]]), fs, order, i + 1)

\* rebuild(vault_path) of rebuild_index.py.
script_rebuild(d, fs, order) == ScriptIndexFiles(Run(ScriptFreshDb, NoReport, <<>>), fs, order, 1)

-----------------------------------------------------------------------------
(* installer.py: the files of a vault that the installer manages           *)

\* The directories a command may be run in.  /v is the vault root, where the
\* .spellbook marker is; / is its own parent.
Dirs == {"/", "/o", "/v", "/v/knowledge"}

Parent(dir) == IF dir = "/v/knowledge" THEN "/v" ELSE "/"

\* (current / SPELLBOOK_MARKER).exists(): the marker of the one vault, at /v.
HasMarker(dir, config) == dir = "/v" /\ config # "none"

NoVault == "None"

\* (the start path returned when no marker is found)
find_vault_root_or_start(start_path, config) ==
    IF \E d \in {start_path, Parent(start_path)} : d # "/" /\ HasMarker(d, config)
    THEN "/v"
    ELSE start_path

\* find_vault_root(start_path): the first directory with the marker on the
\* way up; the walk stops before the file system root.
RECURSIVE find_vault_root(_, _)
find_vault_root(current, config) ==
    IF current = Parent(current) THEN NoVault
    ELSE IF HasMarker(current, config) THEN current
    ELSE find_vault_root(Parent(current), config)

\* The managed files: .claude/ and .vscode/ ("none", "assets" as copied from
\* the package, "edited" when something else is in them, "merged" when the
\* assets were copied over something else), CLAUDE.md ("none", "template",
\* "edited"), .spellbook ("none", or the version it records: "old",
\* "current"), knowledge/.gitignore ("none", "index.db", "other",
\* "other+index.db").
InstalledVault ==
    [claude |-> "assets", vscode |-> "assets", claude_md |-> "template",
     config |-> "current", gitignore |-> "index.db"]

ManagedStates ==
    [claude : {"none", "edited"}, vscode : {"assets"}, claude_md : {"edited"},
     config : {"none", "old"}, gitignore : {"none", "index.db", "other"}]

\* <vault>/log does not exist.
NoLog == <<>>

\* The vault as a tree: the managed files, the user data under knowledge/
\* (buffer/, log/, index.db), and <vault>/log and <vault>/index.db, where the
\* rebuilds work.
Tree(m, fs, d, buf, kfs, kd) ==
    [claude |-> m.claude, vscode |-> m.vscode, claude_md |-> m.claude_md,
     config |-> m.config, gitignore |-> m.gitignore,
     buffer |-> buf, log |-> kfs, index_db |-> kd, root_log |-> fs, root_db |-> d]

ManagedOf(t) ==
    [claude |-> t.claude, vscode |-> t.vscode, claude_md |-> t.claude_md,
     config |-> t.config, gitignore |-> t.gitignore]

\* The entries of the tree at or under a path.
Under(path) ==
    IF path = "vault"
    THEN {"claude", "vscode", "claude_md", "config", "gitignore", "buffer", "log", "index_db",
          "root_log", "root_db"}
    ELSE IF path = "knowledge" THEN {"gitignore", "buffer", "log", "index_db"}
    ELSE {path}

Absent(entry, t) ==
    IF entry = "buffer" THEN <<>>
    ELSE IF entry = "log" THEN [p \in DOMAIN t.log |-> NoFile]
    ELSE IF entry \in {"index_db", "root_db"} THEN NoDb
    ELSE IF entry = "root_log" THEN NoLog
    ELSE "none"

\* shutil.rmtree(path)
rmtree(t, path) == [f \in DOMAIN t |-> IF f \in Under(path) THEN Absent(f, t) ELSE t[f]]

\* shutil.copytree(src, dest, dirs_exist_ok=True) of a directory of the assets.
copytree(t, dest) ==
    [t EXCEPT ![dest] = IF @ \in {"none", "assets"} THEN "assets" ELSE "merged"]

\* (dest = vault_path instead of vault_path / ".claude")
copy_claude_dir_to_root(t, in_assets, clean_first) ==
    IF ~in_assets THEN t
    ELSE copytree(IF clean_first THEN rmtree(t, "vault") ELSE t, "claude")

\* _copy_claude_dir(assets_path, vault_path, clean_first)
copy_claude_dir(t, in_assets, clean_first) ==
    IF ~in_assets THEN t
    ELSE copytree(IF clean_first /\ t.claude # "none" THEN rmtree(t, "claude") ELSE t, "claude")

\* _copy_vscode_dir(assets_path, vault_path, clean_first)
copy_vscode_dir(t, in_assets, clean_first) ==
    IF ~in_assets THEN t
    ELSE copytree(IF clean_first /\ t.vscode # "none" THEN rmtree(t, "vscode") ELSE t, "vscode")

\* _create_knowledge_gitignore(vault_path): mkdir(exist_ok), then the entry
\* index.db written or appended unless it is there.
create_knowledge_gitignore(t) ==
    [t EXCEPT !.gitignore = IF @ = "none" THEN "index.db"
                            ELSE IF @ = "other" THEN "other+index.db" ELSE @]

\* _update_claude_md(vault_path, name)
update_claude_md(t) == [t EXCEPT !.claude_md = "template"]

\* write_config(vault_path, config) with config.version = __version__
write_config(t) == [t EXCEPT !.config = "current"]

\* update_vault, step 2: delete and rewrite the managed files.
sync_vault(t, in_assets) ==
    write_config(update_claude_md(create_knowledge_gitignore(
        copy_vscode_dir(copy_claude_dir(t, in_assets, TRUE), in_assets, TRUE))))

\* update_vault(vault_path, fetch).  After a successful self-upgrade the
\* process is replaced by `update --no-fetch`, which syncs; a failed one exits.
update_vault(t, fetch, upgraded, in_assets) ==
    IF t.config = "none" THEN [tree |-> t, ret |-> "SystemExit(1)"]
    ELSE IF fetch /\ ~upgraded THEN [tree |-> t, ret |-> "SystemExit(1)"]
    ELSE [tree |-> sync_vault(t, in_assets), ret |-> "None"]

\* _create_claude_md(vault_path, name): only if CLAUDE.md does not exist.
create_claude_md(t) == IF t.claude_md # "none" THEN t ELSE update_claude_md(t)

\* knowledge/ is missing or empty: the only case in which git clone into it
\* can succeed.
KnowledgeEmpty(t) == \A f \in Under("knowledge") : t[f] = Absent(f, t)

\* git clone <url> knowledge/: the directory becomes the cloned repository,
\* whose log/ is cloned.
clone_knowledge(t, cloned) == [rmtree(t, "knowledge") EXCEPT !.log = cloned]

\* init_vault(vault_path, name, knowledge_url).  url says whether a knowledge
\* URL is given, clone_ok whether the remote can be cloned, cloned what its
\* log/ holds.
init_vault(t, url, clone_ok, cloned, in_assets) ==
    IF t.config # "none" THEN [tree |-> t, ret |-> "SystemExit(1)"]
    ELSE IF url /\ ~(clone_ok /\ KnowledgeEmpty(t))
    THEN [tree |-> rmtree(t, "vault"), ret |-> "SystemExit(1)"]
    ELSE LET t1 == IF url THEN clone_knowledge(t, cloned) ELSE t
         IN  [tree |-> write_config(create_claude_md(create_knowledge_gitignore(
                           copy_vscode_dir(copy_claude_dir(t1, in_assets, FALSE), in_assets, FALSE)))),
              ret |-> "None"]

\* get_vault_status(vault_path), its Knowledge section: the documents under
\* knowledge/log and the rows of entities in knowledge/index.db (0 without
\* the file or the table).
get_vault_status(t) ==
    IF t.config = "none" THEN [docs |-> 0, entities |-> 0, ret |-> "SystemExit(1)"]
    ELSE [docs |-> Cardinality({p \in DOMAIN t.log : t.log[p].kind # "absent"}),
          entities |-> IF "entities" \in t.index_db.tables
                       THEN Cardinality(t.index_db.entities) ELSE 0,
          ret |-> "None"]

-----------------------------------------------------------------------------
(* The session transcript and the usage correlator                         *)

\* Correlation ids of sub-task dispatches.
Cids == {"t1", "t2"}

\* A transcript line.  type "bad" is a line that does not parse; ts 0 is an
\* entry without a timestamp; dispatch is the correlation id of a "dispatch
\* sub-task" action in an assistant entry's content, result the correlation
\* id of a tool result with agent-result metadata in a user entry ("" for
\* none); tokens is the usage the entry reports (an assistant entry's input
\* tokens, a result's total tokens).
Entry(type, ts, text, sidechain, dispatch, result, tokens) ==
    [type |-> type, ts |-> ts, text |-> text, sidechain |-> sidechain,
     dispatch |-> dispatch, result |-> result, tokens |-> tokens]

BadLine == Entry("bad", 0, "", FALSE, "", "", 0)

IsDispatch(e) == e.type = "assistant" /\ ~e.sidechain /\ e.dispatch # ""

IsCompletion(e) == e.type = "user" /\ ~e.sidechain /\ e.result # ""

\* The entries of the transcripts the usage correlator is run on.
UsageEntries ==
    {Entry("assistant", t, "run", FALSE, c, "", MaxTok) : t \in Times, c \in Cids} \cup
    {Entry("user", t, "", FALSE, "", c, MaxTok) : t \in Times, c \in Cids} \cup
    {Entry("user", 1, "", TRUE, "", "t1", MaxTok), BadLine}

\* The correlator's pending map: correlation id -> the dispatch-side fields,
\* or NoPending.
NoPending == [set |-> FALSE, agent_type |-> "", description |-> "", prompt_preview |-> "", started_at |-> 0]

Pending(e) ==
    [set |-> TRUE, agent_type |-> "Archivist", description |-> "archive",
     prompt_preview |-> "archive the session", started_at |-> e.ts]

NoUsage ==
    [totals |-> [c \in Counters |-> 0], started |-> 0, ended |-> 0,
     pending |-> [c \in Cids |-> NoPending], calls |-> <<>>]

Min2(a, b) == IF a = 0 THEN b ELSE IF b = 0 THEN a ELSE IF a < b THEN a ELSE b
Max2(a, b) == IF a > b THEN a ELSE b

\* The Subagent Call of a completion: the pending dispatch's fields when there
\* is one, otherwise only what the completion carries.
CompletedCall(session_id, pend, e) ==
    [session_id |-> session_id, agent_id |-> "a1",
     agent_type |-> IF pend.set THEN pend.agent_type ELSE "unknown",
     description |-> pend.description, prompt_preview |-> pend.prompt_preview,
     started_at |-> IF pend.set THEN pend.started_at ELSE e.ts, ended_at |-> e.ts,
     duration_ms |-> 0, input_tokens |-> 0, output_tokens |-> 0,
     cache_creation |-> 0, cache_read |-> 0,
     total_tokens |-> e.tokens, tool_use_count |-> 0, status |-> "completed"]

\* One step of the walk: unparsable lines and entries of a delegated
\* sub-conversation are skipped; an assistant entry adds its usage and may
\* record a pending dispatch; a completion pops the pending entry of its
\* correlation id, if any, and emits a call.
UsageStep(u, session_id, e) ==
    IF e.type = "bad" \/ e.sidechain THEN u
    ELSE LET u1 == [u EXCEPT !.started = Min2(@, e.ts), !.ended = Max2(@, e.ts)]
         IN  IF e.type = "assistant"
             THEN [u1 EXCEPT !.totals["total_input_tokens"] = @ + e.tokens,
                             !.totals["total_messages"] = @ + 1,
                             !.pending = IF e.dispatch # ""
                                         THEN [@ EXCEPT ![e.dispatch] = Pending(e)] ELSE @]
             ELSE IF e.result # ""
             THEN [u1 EXCEPT !.calls = Append(@, CompletedCall(session_id, u.pending[e.result], e)),
                             !.pending[e.result] = NoPending]
             ELSE u1

RECURSIVE UsageWalk(_, _, _, _)
UsageWalk(u, session_id, t, i) ==
    IF i > Len(t) THEN u ELSE UsageWalk(UsageStep(u, session_id, t[i]), session_id, t, i + 1)

\* The usage correlator: the session's totals and its subagent calls.
compute_usage(t, session_id) ==
    LET u == UsageWalk(NoUsage, session_id, t, 1)
    IN  [session |-> SessionUsage(session_id, "/v", u.started, u.ended, u.totals, ""),
         calls |-> u.calls]

-----------------------------------------------------------------------------
(* The checkpoint store, the delta extractor and the buffer                *)

\* The entries of the transcripts the delta extractor is run on: user and
\* assistant turns with a timestamp and a text, a turn without a timestamp,
\* a turn without text, an entry of another role, and an unparsable line.
CaptureEntries ==
    {Entry(r, t, "hi", FALSE, "", "", 0) : r \in {"user", "assistant"}, t \in Times} \cup
    {Entry("user", 0, "hi", FALSE, "", "", 0), Entry("user", 1, "", FALSE, "", "", 0),
     Entry("system", MaxTs, "hi", FALSE, "", "", 0), BadLine}

\* "<ROLE>: <text>"; line is the transcript line the record was read from.
Flat(e, i) == [speaker |-> IF e.type = "user" THEN "USER" ELSE "AGENT", text |-> e.text, line |-> i]

NoDelta(cp) == [records |-> <<>>, new_checkpoint |-> cp, count |-> 0]

\* (entries at the checkpoint itself taken again: >= for >)
DeltaStepInclusive(d, cp, e, i) ==
    IF e.type = "bad" \/ e.ts = 0 \/ e.ts < cp THEN d
    ELSE LET d1 == [d EXCEPT !.new_checkpoint = Max2(@, e.ts)]
         IN  IF e.type \in {"user", "assistant"} /\ e.text # ""
             THEN [d1 EXCEPT !.records = Append(@, Flat(e, i)), !.count = @ + 1]
             ELSE d1

\* One entry of the stream: skipped when it does not parse, has no timestamp
\* or has timestamp <= checkpoint; otherwise it raises the candidate
\* checkpoint, and is kept when it is a user or assistant entry with text.
DeltaStep(d, cp, e, i) ==
    IF e.type = "bad" \/ e.ts = 0 \/ e.ts <= cp THEN d
    ELSE LET d1 == [d EXCEPT !.new_checkpoint = Max2(@, e.ts)]
         IN  IF e.type \in {"user", "assistant"} /\ e.text # ""
             THEN [d1 EXCEPT !.records = Append(@, Flat(e, i)), !.count = @ + 1]
             ELSE d1

RECURSIVE DeltaWalk(_, _, _, _)
DeltaWalk(d, cp, t, i) ==
    IF i > Len(t) THEN d ELSE DeltaWalk(DeltaStep(d, cp, t[i], i), cp, t, i + 1)

\* The delta extractor: (flattened records, new checkpoint, entry count).
extract_delta(t, cp) == DeltaWalk(NoDelta(cp), cp, t, 1)

\* (the checkpoint saved whether or not the delta is written)
capture_always_saving(t, cp, buf) ==
    LET d == extract_delta(t, cp)
    IN  IF d.count < 2
        THEN [buffer |-> buf, checkpoint |-> d.new_checkpoint, ret |-> "discarded"]
        ELSE [buffer |-> Append(buf, d.records), checkpoint |-> d.new_checkpoint, ret |-> "written"]

\* A capture: a delta of fewer than 2 entries is discarded and the checkpoint
\* kept; otherwise the buffer record is written and then the checkpoint saved.
capture(t, cp, buf) ==
    LET d == extract_delta(t, cp)
    IN  IF d.count < 2
        THEN [buffer |-> buf, checkpoint |-> cp, ret |-> "discarded"]
        ELSE [buffer |-> Append(buf, d.records), checkpoint |-> d.new_checkpoint, ret |-> "written"]

\* (the checkpoint saved before the buffer record is written)
CaptureStepsCheckpointFirst == <<"save_checkpoint", "write_buffer">>

\* The writes of a capture whose delta is kept, in the order they are made
\* durable: the buffer record, then the checkpoint.
CaptureSteps == <<"write_buffer", "save_checkpoint">>

CaptureStep(s, d, step) ==
    IF step = "write_buffer"
    THEN [s EXCEPT !.buffer = Append(@, d.records)]
    ELSE [s EXCEPT !.checkpoint = d.new_checkpoint]

\* The first k writes of a capture.
RECURSIVE CaptureRun(_, _, _, _)
CaptureRun(s, d, k, i) ==
    IF i > k THEN s ELSE CaptureRun(CaptureStep(s, d, CaptureSteps[i]), d, k, i + 1)

\* Where a capture can be killed: before its first write, or between the two.
KillPoints == <<"killed before the first write", "killed after the first write">>

\* A capture that is killed after k of its writes; a delta of fewer than 2
\* entries has no write to be killed in.
capture_killed(t, cp, buf, k) ==
    LET d == extract_delta(t, cp)
        s == CaptureRun([buffer |-> buf, checkpoint |-> cp], d, IF d.count < 2 THEN 0 ELSE k, 1)
    IN  [buffer |-> s.buffer, checkpoint |-> s.checkpoint, ret |-> KillPoints[k + 1]]

-----------------------------------------------------------------------------
(* Runs in progress                                                        *)

\* DROP TABLE IF EXISTS <table>: a DDL statement, committed as it is executed.
DropTable(d, table) == [d EXCEPT !.tables = @ \ {table}, ![table] = {}]

\* What a query returns: the rows, or the sqlite3.OperationalError it raises
\* when its table does not exist.
Returned(docs) == [raised |-> "None", docs |-> docs]
Raised(error) == [raised |-> error, docs |-> <<>>]

\* get_entity_docs(conn, entity): SELECT doc_id FROM refs WHERE entity = ?
\* ORDER BY ts DESC.  Rows with the same ts come in either order, so the
\* operator gives every list the query may return.
get_entity_docs(d, entity) ==
    IF "refs" \notin d.tables THEN {Raised("OperationalError")}
    ELSE LET rows == {r \in d.refs : r.entity = entity}
         IN  {Returned([i \in DOMAIN s |-> s[i].doc_id]) :
                 s \in {q \in [1..Cardinality(rows) -> rows] :
                           /\ Range(q) = rows
                           /\ \A i, j \in DOMAIN q : i < j => q[i].ts >= q[j].ts}}

\* knowledge/log/ without a document.
NoKnowledgeLog == [p \in Paths |-> NoFile]

\* What a path of a vault's log holds in the runs of the commands: nothing,
\* or one document.
VaultContents ==
    {NoFile, [kind |-> "map", id |-> "", ts |-> MaxTs, form |-> "list",
              ents |-> <<[name |-> NameSa, type |-> "person"]>>, emap |-> <<>>]}

\* knowledge/log/ without documents, or with the same document at every
\* path; knowledge/index.db absent, or with the rows of that document.
KnowledgeLogs == {[p \in Paths |-> c] : c \in VaultContents}

KnowledgeDbs ==
    {NoDb, add_document(init_schema(NoDb),
                        [id |-> "a", ts |-> MaxTs, entities |-> <<[name |-> NameSa, type |-> "person"]>>])}

\* No rebuild_index run is in progress.
NoRebuild == [pc |-> "idle", order |-> <<>>, i |-> 0, run |-> Run(NoDb, NoReport, <<>>), pre |-> NoDb]

\* The two processes that may run a usage capture at the same time.
Invocations == {1, 2}

\* No usage capture is in progress.
NoCapture ==
    [k \in Invocations |->
        [pc |-> "idle", session_id |-> "", usage |-> compute_usage(<<>>, ""), todo |-> <<>>]]

\* A statement of a usage capture; i is the index of the call an INSERT stores.
Statement(op, i) == [op |-> op, i |-> i]

\* The transactions of a usage capture, in order.  init_context_schema,
\* upsert_session and insert_subagent_call each end with conn.commit(); the
\* DELETE that precedes the inserts is committed by itself (alone) or is still
\* open when the first insert_subagent_call commits.
CapturePlan(u, alone) ==
    LET inserts == [j \in DOMAIN u.calls |-> <<Statement("insert_subagent_call", j)>>]
        delete == Statement("delete_subagent_calls", 0)
    IN  <<<<Statement("init_context_schema", 0)>>, <<Statement("upsert_session", 0)>>>> \o
        (IF alone \/ Len(inserts) = 0
         THEN <<<<delete>>>> \o inserts
         ELSE <<<<delete>> \o inserts[1]>> \o Tail(inserts))

ApplyStatement(d, inv, w) ==
    IF w.op = "init_context_schema" THEN init_context_schema(d)
    ELSE IF w.op = "upsert_session" THEN upsert_session(d, inv.usage.session)
    ELSE IF w.op = "delete_subagent_calls" THEN delete_subagent_calls(d, inv.session_id)
    ELSE insert_subagent_call(d, inv.usage.calls[w.i])

\* One transaction: its statements in order, then the commit.
RECURSIVE ApplyTransaction(_, _, _, _)
ApplyTransaction(d, inv, tx, i) ==
    IF i > Len(tx) THEN d ELSE ApplyTransaction(ApplyStatement(d, inv, tx[i]), inv, tx, i + 1)

Inserts(tx) == Cardinality({i \in DOMAIN tx : tx[i].op = "insert_subagent_call"})

-----------------------------------------------------------------------------
(* Operations                                                              *)

\* The record of an operation.  rep is set by the operations that are run
\* twice in a row on purpose (a rebuild, a usage capture): it says that the
\* operation before this one was the same call with the same argument.
Call(op, arg, ret) == [op |-> op, arg |-> arg, ret |-> ret, rep |-> FALSE]

Repeated(op, arg, ret) ==
    [op |-> op, arg |-> arg, ret |-> ret, rep |-> (call.op = op /\ call.arg = arg)]

\* add_document on a document of D.  Without the entity tables the first
\* statement raises sqlite3.OperationalError and nothing is written.
AddDocument(D) ==
    \E doc \in D :
        /\ Cardinality(indexed \cup {doc}) <= MaxIndexed
        /\ IF {"entities", "refs"} \subseteq db.tables
           THEN /\ db' = add_document(db, doc)
                /\ call' = Call("add_document", doc, "None")
                /\ indexed' = indexed \cup {doc}
                /\ dup' = (dup \/ doc \in indexed)
           ELSE /\ call' = Call("add_document", doc, "OperationalError")
                /\ UNCHANGED <<db, indexed, dup>>
        /\ report' = NoReport
        /\ UNCHANGED <<files, transcript, checkpoint, buffer, managed, klog, kdb, rebuilding, capturing>>

AliasArgs == [alias : Names, canonical : Names, entity_type : InputTypes]

\* add_entity_alias on an argument triple of A.  Without the entity_aliases
\* table the INSERT raises sqlite3.OperationalError, which is not caught.
AddEntityAlias(A) ==
    \E a \in A :
        /\ IF "entity_aliases" \in db.tables
           THEN LET r == add_entity_alias(db, a.alias, a.canonical, a.entity_type)
                IN  /\ db' = r.db
                    /\ call' = Call("add_entity_alias", a, r.ret)
           ELSE /\ call' = Call("add_entity_alias", a, "OperationalError")
                /\ UNCHANGED db
        /\ report' = NoReport
        /\ UNCHANGED <<files, indexed, dup, transcript, checkpoint, buffer, managed, klog, kdb, rebuilding, capturing>>


\* The documents the vault's files parse to.
VaultDocs == {parse_document(p, files[p]) : p \in Paths} \ {NoDoc, ParseRaises}

\* rebuild_index(vault_path).
RebuildIndex ==
    \E order \in ScanOrders(files) :
        LET run == rebuild_index(db, files, order)
        IN  /\ db' = run.db
            /\ report' = run.report
            /\ call' = Repeated("rebuild_index", "vault", run.report.status)
            /\ indexed' = Range(run.added)
            /\ dup' = (Len(run.added) > Cardinality(Range(run.added)))
            /\ UNCHANGED <<files, transcript, checkpoint, buffer, managed, klog, kdb, rebuilding, capturing>>

\* rebuild(vault) of rebuild_index.py: its tables are not filled by
\* add_document, so the history of add_document starts again.
ScriptRebuild ==
    \E order \in ScanOrders(files) :
        LET run == script_rebuild(db, files, order)
        IN  /\ db' = run.db
            /\ report' = run.report
            /\ call' = Repeated("script_rebuild", "vault", run.report.status)
            /\ indexed' = {}
            /\ dup' = FALSE
            /\ UNCHANGED <<files, transcript, checkpoint, buffer, managed, klog, kdb, rebuilding, capturing>>

\* ensure_context_schema(vault_path)
EnsureContextSchema ==
    /\ db' = init_context_schema(db)
    /\ call' = Call("ensure_context_schema", "vault", "conn")
    /\ report' = NoReport
    /\ UNCHANGED <<files, indexed, dup, transcript, checkpoint, buffer, managed, klog, kdb, rebuilding, capturing>>

\* upsert_session on a SessionUsage of S.
UpsertSession(S) ==
    \E s \in S :
        /\ IF "sessions" \in db.tables
           THEN /\ db' = upsert_session(db, s)
                /\ call' = Repeated("upsert_session", s, "None")
           ELSE /\ call' = Call("upsert_session", s, "OperationalError")
                /\ UNCHANGED db
        /\ report' = NoReport
        /\ UNCHANGED <<files, indexed, dup, transcript, checkpoint, buffer, managed, klog, kdb, rebuilding, capturing>>

\* The usage capture stores the calls computed from a transcript for a session.
StoreSubagentCalls(C) ==
    \E a \in C :
        /\ db.seq + Len(a.calls) <= MaxRowId
        /\ IF "subagent_calls" \in db.tables
           THEN /\ db' = store_subagent_calls(db, a.session_id, a.calls)
                /\ call' = Repeated("store_subagent_calls", a, "None")
           ELSE /\ call' = Call("store_subagent_calls", a, "OperationalError")
                /\ UNCHANGED db
        /\ report' = NoReport
        /\ UNCHANGED <<files, indexed, dup, transcript, checkpoint, buffer, managed, klog, kdb, rebuilding, capturing>>

\* The arguments of a store: a session and the list of its computed calls.
StoreArgs ==
    UNION {[session_id : {sid}, calls : SeqsUpTo(SubagentCalls(sid), MaxCalls)] : sid \in SessionIds}

\* The external runtime appends an entry of E to the transcript.
AppendEntry(E) ==
    \E e \in E :
        /\ Len(transcript) < MaxTranscript
        /\ transcript' = Append(transcript, e)
        /\ call' = Call("append", "transcript", "None")
        /\ report' = NoReport
        /\ UNCHANGED <<files, db, indexed, dup, checkpoint, buffer, managed, klog, kdb, rebuilding, capturing>>

\* On session end, the usage capture for a session: ensure_context_schema,
\* the correlator over the whole transcript, upsert_session, and the
\* session's subagent_calls rows replaced by the computed calls.
CaptureUsage(S) ==
    \E sid \in S :
        LET u == compute_usage(transcript, sid)
        IN  /\ db.seq + Len(u.calls) <= MaxRowId
            /\ db' = store_subagent_calls(upsert_session(init_context_schema(db), u.session),
                                          sid, u.calls)
            /\ call' = Repeated("capture_usage", sid, "None")
            /\ report' = NoReport
            /\ UNCHANGED <<files, indexed, dup, transcript, checkpoint, buffer, managed, klog, kdb, rebuilding, capturing>>

\* On session end, the capture of the transcript's delta.  arg is the
\* checkpoint the extractor was given.
CaptureDelta ==
    LET r == capture(transcript, checkpoint, buffer)
    IN  /\ buffer' = r.buffer
        /\ checkpoint' = r.checkpoint
        /\ call' = Call("capture_delta", checkpoint, r.ret)
        /\ report' = NoReport
        /\ UNCHANGED <<files, db, indexed, dup, transcript, managed, klog, kdb, rebuilding, capturing>>

\* The capture of the transcript's delta, killed after k of its writes.  arg
\* is the checkpoint the extractor was given, ret the point of the kill.
CaptureDeltaKilled ==
    \E k \in 0..(Len(CaptureSteps) - 1) :
        LET r == capture_killed(transcript, checkpoint, buffer, k)
        IN  /\ Len(buffer) < MaxBuffer
            /\ buffer' = r.buffer
            /\ checkpoint' = r.checkpoint
            /\ call' = Call("capture_delta_killed", checkpoint, r.ret)
            /\ report' = NoReport
            /\ UNCHANGED <<files, db, indexed, dup, transcript, managed, klog, kdb, rebuilding, capturing>>

\* A process starts the usage capture of a session of S: it reads the
\* transcript and computes the usage; its writes are still to come.
BeginCaptureUsage(S) ==
    \E k \in Invocations, sid \in S, alone \in BOOLEAN :
        LET u == compute_usage(transcript, sid)
        IN  /\ capturing[k].pc = "idle"
            /\ capturing' = [capturing EXCEPT ![k] =
                                [pc |-> "writing", session_id |-> sid, usage |-> u,
                                 todo |-> CapturePlan(u, alone)]]
            /\ call' = Call("begin_capture_usage", sid, "None")
            /\ report' = NoReport
            /\ UNCHANGED <<files, db, indexed, dup, transcript, checkpoint, buffer, managed,
                           klog, kdb, rebuilding>>

\* A process in a usage capture commits its next transaction.
CommitCaptureUsage ==
    \E k \in Invocations :
        LET inv == capturing[k]
        IN  /\ inv.pc = "writing"
            /\ db.seq + Inserts(Head(inv.todo)) <= MaxRowId
            /\ db' = ApplyTransaction(db, inv, Head(inv.todo), 1)
            /\ capturing' = [capturing EXCEPT ![k].todo = Tail(@),
                                              ![k].pc = IF Len(inv.todo) = 1 THEN "done" ELSE "writing"]
            /\ call' = Call("commit_capture_usage", inv.session_id, "None")
            /\ report' = NoReport
            /\ UNCHANGED <<files, indexed, dup, transcript, checkpoint, buffer, managed,
                           klog, kdb, rebuilding>>

\* rebuild_index(vault_path) starts: it lists the files; its statements are
\* still to come.  pre is the store as the run found it.
BeginRebuild ==
    \E order \in ScanOrders(files) :
        /\ rebuilding.pc = "idle"
        /\ rebuilding' = [pc |-> "drop_refs", order |-> order, i |-> 1,
                          run |-> Run(db, NoReport, <<>>), pre |-> db]
        /\ call' = Call("begin_rebuild_index", "vault", "None")
        /\ report' = NoReport
        /\ UNCHANGED <<files, db, indexed, dup, transcript, checkpoint, buffer, managed,
                       klog, kdb, capturing>>

\* The statement the run in progress is at, up to its commit: one of the
\* three DROPs, init_schema, add_document for the next file (or its
\* rejection), or the summary after the last file.
StepRebuild ==
    /\ rebuilding.pc # "idle"
    /\ IF rebuilding.pc = "drop_refs"
       THEN /\ db' = DropTable(db, "refs")
            /\ rebuilding' = [rebuilding EXCEPT !.pc = "drop_entity_aliases"]
            /\ UNCHANGED <<report, indexed, dup>>
       ELSE IF rebuilding.pc = "drop_entity_aliases"
       THEN /\ db' = DropTable(db, "entity_aliases")
            /\ rebuilding' = [rebuilding EXCEPT !.pc = "drop_entities"]
            /\ UNCHANGED <<report, indexed, dup>>
       ELSE IF rebuilding.pc = "drop_entities"
       THEN /\ db' = DropTable(db, "entities")
            /\ rebuilding' = [rebuilding EXCEPT !.pc = "init_schema"]
            /\ UNCHANGED <<report, indexed, dup>>
       ELSE IF rebuilding.pc = "init_schema"
       THEN /\ db' = init_schema(db)
            /\ rebuilding' = [rebuilding EXCEPT !.pc = "scan"]
            /\ UNCHANGED <<report, indexed, dup>>
       ELSE LET now == Run(db, rebuilding.run.report, rebuilding.run.added)
                next == IndexFiles(now, files, rebuilding.order, Len(rebuilding.order) + 1)
                step == IF rebuilding.i > Len(rebuilding.order) THEN next
                        ELSE IndexFile(now, rebuilding.order[rebuilding.i],
                                       files[rebuilding.order[rebuilding.i]])
            IN  /\ db' = step.db
                /\ IF step.report.status = "none"
                   THEN /\ rebuilding' = [rebuilding EXCEPT !.i = @ + 1, !.run = step]
                        /\ UNCHANGED <<report, indexed, dup>>
                   ELSE /\ rebuilding' = NoRebuild
                        /\ report' = step.report
                        /\ indexed' = Range(step.added)
                        /\ dup' = (Len(step.added) > Cardinality(Range(step.added)))
    /\ call' = Call(IF rebuilding'.pc = "idle" THEN "rebuild_index" ELSE "step_rebuild_index",
                    "vault", IF rebuilding'.pc = "idle" THEN report'.status ELSE "None")
    /\ UNCHANGED <<files, transcript, checkpoint, buffer, managed, klog, kdb, capturing>>

\* A read-only query from another process: get_entity_docs for a name of N.
\* arg holds the name and the list returned, ret the exception raised if any.
GetEntityDocs(N) ==
    \E n \in N :
        \E result \in get_entity_docs(db, n) :
            /\ call' = Call("get_entity_docs", [entity |-> n, docs |-> result.docs], result.raised)
            /\ report' = NoReport
            /\ UNCHANGED <<files, db, indexed, dup, transcript, checkpoint, buffer, managed,
                           klog, kdb, rebuilding, capturing>>

\* sb rebuild, run in directory cwd: exits with status 1 outside a vault,
\* otherwise rebuild_index on the vault found.
SbRebuild ==
    \E cwd \in Dirs :
        IF find_vault_root(cwd, managed.config) = NoVault
        THEN /\ call' = Call("sb rebuild", cwd, "SystemExit(1)")
             /\ report' = NoReport
             /\ UNCHANGED <<files, db, indexed, dup, transcript, checkpoint, buffer, managed, klog, kdb, rebuilding, capturing>>
        ELSE \E order \in ScanOrders(files) :
                 LET run == rebuild_index(db, files, order)
                 IN  /\ db' = run.db
                     /\ report' = run.report
                     /\ call' = Call("sb rebuild", cwd, run.report.status)
                     /\ indexed' = Range(run.added)
                     /\ dup' = (Len(run.added) > Cardinality(Range(run.added)))
                     /\ UNCHANGED <<files, transcript, checkpoint, buffer, managed, klog, kdb, rebuilding, capturing>>

\* python rebuild_index.py <vault>: exits with status 1 when <vault> has no
\* .spellbook or no log/, otherwise rebuild(vault).
ScriptMain ==
    \E vault \in Dirs :
        IF ~HasMarker(vault, managed.config) \/ files = NoLog
        THEN /\ call' = Call("rebuild_index.py", vault, "SystemExit(1)")
             /\ report' = NoReport
             /\ UNCHANGED <<files, db, indexed, dup, transcript, checkpoint, buffer, managed, klog, kdb, rebuilding, capturing>>
        ELSE \E order \in ScanOrders(files) :
                 LET run == script_rebuild(db, files, order)
                 IN  /\ db' = run.db
                     /\ report' = run.report
                     /\ call' = Call("rebuild_index.py", vault, run.report.status)
                     /\ indexed' = {}
                     /\ dup' = FALSE
                     /\ UNCHANGED <<files, transcript, checkpoint, buffer, managed, klog, kdb, rebuilding, capturing>>

\* update_vault(vault_path, fetch): the self-upgrade succeeds or fails, the
\* package has its asset directories or not.
UpdateVault ==
    \E fetch, upgraded, in_assets \in BOOLEAN :
        LET r == update_vault(Tree(managed, files, db, buffer, klog, kdb), fetch, upgraded, in_assets)
        IN  /\ managed' = ManagedOf(r.tree)
            /\ files' = r.tree.root_log
            /\ db' = r.tree.root_db
            /\ buffer' = r.tree.buffer
            /\ klog' = r.tree.log
            /\ kdb' = r.tree.index_db
            /\ call' = Call("update_vault", fetch, r.ret)
            /\ report' = NoReport
            /\ UNCHANGED <<indexed, dup, transcript, checkpoint, rebuilding, capturing>>

\* sb init on the directory: with or without a knowledge URL, the remote
\* reachable or not, the package with its asset directories or not.
InitVaultCmd ==
    \E url, clone_ok, in_assets \in BOOLEAN, cloned \in KnowledgeLogs :
        LET r == init_vault(Tree(managed, files, db, buffer, klog, kdb), url, clone_ok, cloned, in_assets)
        IN  /\ managed' = ManagedOf(r.tree)
            /\ files' = r.tree.root_log
            /\ db' = r.tree.root_db
            /\ buffer' = r.tree.buffer
            /\ klog' = r.tree.log
            /\ kdb' = r.tree.index_db
            /\ call' = Call("init_vault", url, r.ret)
            /\ report' = NoReport
            /\ UNCHANGED <<indexed, dup, transcript, checkpoint, rebuilding, capturing>>

\* A document is placed in the log directory of the vault, knowledge/log.
PlaceDocument(D) ==
    \E p \in Paths, c \in D :
        /\ managed.config # "none"
        /\ klog[p] = NoFile
        /\ klog' = [klog EXCEPT ![p] = c]
        /\ call' = Call("place_document", p, "None")
        /\ report' = NoReport
        /\ UNCHANGED <<files, db, indexed, dup, transcript, checkpoint, buffer, managed,
                       kdb, rebuilding, capturing>>

\* sb status in the vault.  arg holds the counts it prints.
VaultStatus ==
    LET r == get_vault_status(Tree(managed, files, db, buffer, klog, kdb))
    IN  /\ call' = Call("get_vault_status", [docs |-> r.docs, entities |-> r.entities], r.ret)
        /\ report' = NoReport
        /\ UNCHANGED <<files, db, indexed, dup, transcript, checkpoint, buffer, managed,
                       klog, kdb, rebuilding, capturing>>

-----------------------------------------------------------------------------
(* Specifications                                                          *)

NoCall == [op |-> "none", arg |-> "none", ret |-> "None", rep |-> FALSE]

\* No rebuild has run, the transcript is empty, nothing has been captured, and
\* the managed files are as init_vault leaves them.
InitRest ==
    /\ report = NoReport
    /\ transcript = <<>>
    /\ checkpoint = 0
    /\ buffer = <<>>
    /\ managed = InstalledVault
    /\ klog = NoKnowledgeLog
    /\ kdb = NoDb
    /\ rebuilding = NoRebuild
    /\ capturing = NoCapture

\* A store whose entity schema has just been created: connect + init_schema.
InitIndex ==
    /\ files = <<>>
    /\ db = init_schema(NoDb)
    /\ call = NoCall
    /\ indexed = {}
    /\ dup = FALSE
    /\ InitRest

NextIndex == AddDocument(ArchiveDocs)

SpecIndex == InitIndex /\ [][NextIndex]_vars

\* Documents with one entity reference, for the runs that mix indexing and aliases.
OneRefDocs == {d \in ArchiveDocs : Len(d.entities) = 1 /\ d.id = "a" /\ d.ts = 1}

NextAlias ==
    \/ AddDocument(OneRefDocs)
    \/ AddEntityAlias(AliasArgs)

SpecAlias == InitIndex /\ [][NextAlias]_vars

\* A store with both schemas created and no row.
InitUsage ==
    /\ files = <<>>
    /\ db = init_context_schema(init_schema(NoDb))
    /\ call = NoCall
    /\ indexed = {}
    /\ dup = FALSE
    /\ InitRest

NextSessions == UpsertSession(SessionUsages)

SpecSessions == InitUsage /\ [][NextSessions]_vars

NextCalls == StoreSubagentCalls(StoreArgs)

SpecCalls == InitUsage /\ [][NextCalls]_vars

\* A vault whose log/ holds a batch of files of every kind, and the two
\* rebuild drivers.
InitBatch ==
    /\ files \in [Paths -> BatchContents]
    /\ db = NoDb
    /\ call = NoCall
    /\ indexed = {}
    /\ dup = FALSE
    /\ InitRest

NextBatch ==
    \/ RebuildIndex
    \/ ScriptRebuild

SpecBatch == InitBatch /\ [][NextBatch]_vars

\* The usage capture of one session over a growing transcript.
NextUsage ==
    \/ AppendEntry(UsageEntries)
    \/ CaptureUsage({"s1"})

SpecUsage == InitUsage /\ [][NextUsage]_vars

\* Two processes that run the usage capture of the same session over the
\* same transcript, their transactions committed in any order.
InitOverlap ==
    /\ files = <<>>
    /\ db = NoDb
    /\ call = NoCall
    /\ indexed = {}
    /\ dup = FALSE
    /\ report = NoReport
    /\ transcript \in SeqsUpTo(UsageEntries, MaxTranscript)
    /\ checkpoint = 0
    /\ buffer = <<>>
    /\ managed = InstalledVault
    /\ klog = NoKnowledgeLog
    /\ kdb = NoDb
    /\ rebuilding = NoRebuild
    /\ capturing = NoCapture

NextOverlap ==
    \/ BeginCaptureUsage({"s1"})
    \/ CommitCaptureUsage

SpecOverlap == InitOverlap /\ [][NextOverlap]_vars

\* The delta capture over a growing transcript.
NextCapture ==
    \/ AppendEntry(CaptureEntries)
    \/ CaptureDelta

\* A new session's transcript in a vault whose checkpoint is absent or was
\* saved by the capture of an earlier session.
InitCapture ==
    /\ files = <<>>
    /\ db = init_context_schema(init_schema(NoDb))
    /\ call = NoCall
    /\ indexed = {}
    /\ dup = FALSE
    /\ report = NoReport
    /\ transcript = <<>>
    /\ checkpoint \in 0..MaxTs
    /\ buffer = <<>>
    /\ managed = InstalledVault
    /\ klog = NoKnowledgeLog
    /\ kdb = NoDb
    /\ rebuilding = NoRebuild
    /\ capturing = NoCapture

SpecCapture == InitCapture /\ [][NextCapture]_vars

\* The delta capture with runs that are killed part-way.
NextKill ==
    \/ AppendEntry(CaptureEntries)
    \/ CaptureDelta
    \/ CaptureDeltaKilled

SpecKill == InitCapture /\ [][NextKill]_vars

\* A vault whose log/ holds any set of files and whose index.db does not exist yet.
Init ==
    /\ files \in [Paths -> FileContents]
    /\ db = NoDb
    /\ call = NoCall
    /\ indexed = {}
    /\ dup = FALSE
    /\ InitRest

\* The inputs of the operations that only fill the store around a rebuild.
OneSession == {s \in SessionUsages : s.id = "s1" /\ s.vault_path = "/v" /\ s.ended_at = 0
                                     /\ \A c \in Counters : s[c] = MaxTok}
OneStore == {a \in StoreArgs : a.session_id = "s1" /\ Len(a.calls) = 1
                               /\ \A i \in DOMAIN a.calls : a.calls[i].agent_id = "a1"
                                                          /\ a.calls[i].total_tokens = MaxTok}
OneAlias == {a \in AliasArgs : a.alias = NameSaLower /\ a.canonical = NameSa /\ a.entity_type = "person"}

Next ==
    \/ RebuildIndex
    \/ ScriptRebuild
    \/ AddDocument(VaultDocs)
    \/ AddEntityAlias(OneAlias)
    \/ EnsureContextSchema
    \/ UpsertSession(OneSession)
    \/ StoreSubagentCalls(OneStore)

Spec == Init /\ [][Next]_vars

\* A vault whose documents mention one entity each and may share an id, and
\* the operations that write refs.
RefContents ==
    {NoFile} \cup
    {c \in FileContents : c.kind = "map" /\ c.ts # 0 /\ Len(c.ents) = 1
                             /\ \A i \in DOMAIN c.ents : c.ents[i].type = "person"}

InitRefs ==
    /\ files \in [Paths -> RefContents]
    /\ db = NoDb
    /\ call = NoCall
    /\ indexed = {}
    /\ dup = FALSE
    /\ InitRest

NextRefs ==
    \/ RebuildIndex
    \/ ScriptRebuild
    \/ AddDocument(VaultDocs)

SpecRefs == InitRefs /\ [][NextRefs]_vars

\* A directory tree with the vault at /v: its managed files in any state
\* (with or without .spellbook), documents in log/ and in knowledge/log/, a
\* buffer record or none, and the commands of the CLI and the standalone
\* script.
InitVault ==
    /\ files \in [Paths -> VaultContents]
    /\ db = NoDb
    /\ call = NoCall
    /\ indexed = {}
    /\ dup = FALSE
    /\ report = NoReport
    /\ transcript = <<>>
    /\ checkpoint = 0
    /\ buffer \in {<<>>, <<<<[speaker |-> "USER", text |-> "hi", line |-> 1]>>>>}
    /\ managed \in ManagedStates
    /\ klog \in KnowledgeLogs
    /\ kdb \in KnowledgeDbs
    /\ rebuilding = NoRebuild
    /\ capturing = NoCapture

NextVault ==
    \/ SbRebuild
    \/ ScriptMain
    \/ UpdateVault
    \/ EnsureContextSchema
    \/ UpsertSession(OneSession)

SpecVault == InitVault /\ [][NextVault]_vars

\* A directory that is no vault yet: nothing in it, or files of the user's
\* (a .claude/ directory, a CLAUDE.md, a knowledge/ with documents); then
\* sb init, documents placed in the vault's log directory, the rebuilds, sb
\* status.
PlainDirectories ==
    [claude : {"none", "edited"}, vscode : {"none"}, claude_md : {"none", "edited"},
     config : {"none"}, gitignore : {"none", "other"}]

InitInstall ==
    /\ files = NoLog
    /\ db = NoDb
    /\ call = NoCall
    /\ indexed = {}
    /\ dup = FALSE
    /\ report = NoReport
    /\ transcript = <<>>
    /\ checkpoint = 0
    /\ buffer = <<>>
    /\ managed \in PlainDirectories
    /\ klog \in KnowledgeLogs
    /\ kdb = NoDb
    /\ rebuilding = NoRebuild
    /\ capturing = NoCapture

NextInstall ==
    \/ InitVaultCmd
    \/ PlaceDocument(VaultContents \ {NoFile})
    \/ SbRebuild
    \/ ScriptMain
    \/ VaultStatus

SpecInstall == InitInstall /\ [][NextInstall]_vars

\* A vault that is rebuilt statement by statement while another process
\* queries its index.
InitReader ==
    /\ files \in [Paths -> VaultContents]
    /\ db = NoDb
    /\ call = NoCall
    /\ indexed = {}
    /\ dup = FALSE
    /\ InitRest

NextReader ==
    \/ BeginRebuild
    \/ StepRebuild
    \/ GetEntityDocs({NameSa, NameBo})

SpecReader == InitReader /\ [][NextReader]_vars

\* The same vault with files that take their id from their path and whose
\* entries all carry a recognized type, and the operations that touch the
\* entity tables.
InitRebuild ==
    /\ files \in [Paths -> {c \in FileContents :
                              c.id = "" /\ \A i \in DOMAIN c.ents : c.ents[i].type \in EntityType}]
    /\ db = NoDb
    /\ call = NoCall
    /\ indexed = {}
    /\ dup = FALSE
    /\ InitRest

NextRebuild ==
    \/ RebuildIndex
    \/ AddDocument(VaultDocs)
    \/ AddEntityAlias(OneAlias)

SpecRebuild == InitRebuild /\ [][NextRebuild]_vars

-----------------------------------------------------------------------------
(* Indexing: add_document                                                  *)

\* Every order in which the documents of S can be passed to add_document.
Orders(S) == {s \in [1..Cardinality(S) -> S] : Range(s) = S}

RECURSIVE IndexInOrder(_, _, _)
IndexInOrder(d, s, i) ==
    IF i > Len(s) THEN d ELSE IndexInOrder(add_document(d, s[i]), s, i + 1)

DistinctIds(S) == \A d1, d2 \in S : d1.id = d2.id => d1 = d2

\* No two documents of S give the same entity name different types.
ConsistentTypes(S) ==
    \A d1, d2 \in S : \A i \in DOMAIN d1.entities : \A j \in DOMAIN d2.entities :
        d1.entities[i].name = d2.entities[j].name => d1.entities[i].type = d2.entities[j].type

Mentions(doc, name) == \E i \in DOMAIN doc.entities : doc.entities[i].name = name

Max(S) == CHOOSE m \in S : \A n \in S : n <= m

\* C3: indexing is independent of processing order: whatever the order in
\* which a set of documents went through add_document from an empty entity
\* schema, the entities rows and the refs rows are those of every other
\* order.  (Stated for the sets most favourable to the claim: every document
\* passed once, pairwise distinct ids, no disagreement on an entity's type.)
C3_OrderIndependent ==
    (~dup /\ DistinctIds(indexed) /\ ConsistentTypes(indexed)) =>
        \A s \in Orders(indexed) :
            LET d == IndexInOrder(init_schema(NoDb), s, 1)
            IN  d.entities = db.entities /\ d.refs = db.refs

\* C4: last_mentioned is a monotonic maximum: after every add_document it is
\* the latest timestamp among the documents that referenced the entity so
\* far (stated for documents with pairwise distinct ids), and no
\* add_document ever decreases it.
C4_LastMentionedIsMax ==
    DistinctIds(indexed) => \A e \in db.entities :
        e.last_mentioned = Max({doc.ts : doc \in {x \in indexed : Mentions(x, e.name)}})

C4_LastMentionedNeverDecreases ==
    DistinctIds(indexed') =>
        \A e \in db.entities : \A f \in db'.entities :
            e.name = f.name => f.last_mentioned >= e.last_mentioned

C4_MonotonicMax == []C4_LastMentionedIsMax /\ [][C4_LastMentionedNeverDecreases]_vars

-----------------------------------------------------------------------------
(* Aliases: add_entity_alias, get_canonical_name                           *)

LowerCase(c) == IF c >= 65 /\ c <= 90 THEN c + 32 ELSE c
UpperCase(c) == IF c >= 97 /\ c <= 122 THEN c - 32 ELSE c

\* Every spelling of name that differs from it in letter case only.
CaseVariants(name) ==
    {m \in [DOMAIN name -> UNION {{LowerCase(name[i]), UpperCase(name[i])} : i \in DOMAIN name}] :
        \A i \in DOMAIN name : m[i] \in {LowerCase(name[i]), UpperCase(name[i])}}

SameIgnoringCase(a, b) == b \in CaseVariants(a)

\* C5: alias resolution identity: get_canonical_name returns n for every
\* name n of the entities table, and the registered canonical name for
\* every registered alias in every letter case.
C5_ResolutionIdentity ==
    /\ \A e \in db.entities : get_canonical_name(db, e.name) = e.name
    /\ \A r \in db.entity_aliases : \A v \in CaseVariants(r.alias) :
           get_canonical_name(db, v) = r.canonical

\* C6: alias resolution is idempotent: resolving the result of a resolution
\* changes nothing, for every name.
C6_ResolutionIdempotent ==
    \A x \in UNION {CaseVariants(n) : n \in Names} :
        get_canonical_name(db, get_canonical_name(db, x)) = get_canonical_name(db, x)

\* C7: add_entity_alias reports a conflict as a value: on an alias already
\* registered in some letter case it returns False and leaves entity_aliases
\* as it was; on an alias not yet registered it returns True and adds exactly
\* the row (alias, canonical, type).
C7_Step ==
    call'.op = "add_entity_alias" =>
        LET a == call'.arg
            row == [alias |-> a.alias, canonical |-> a.canonical, entity_type |-> a.entity_type]
        IN  IF \E r \in db.entity_aliases : SameIgnoringCase(r.alias, a.alias)
            THEN call'.ret = "False" /\ db'.entity_aliases = db.entity_aliases
            ELSE /\ call'.ret = "True"
                 /\ row \notin db.entity_aliases
                 /\ db'.entity_aliases = db.entity_aliases \cup {row}

C7_ConflictIsAValue == [][C7_Step]_vars

\* A conflict was reported on an alias registered in another letter case.
C7_Witness ==
    /\ call.op = "add_entity_alias"
    /\ call.ret = "False"
    /\ \E r \in db.entity_aliases :
           r.alias # call.arg.alias /\ SameIgnoringCase(r.alias, call.arg.alias)

-----------------------------------------------------------------------------
(* Rebuild                                                                 *)

EntitySnapshot(d) ==
    [tables |-> d.tables \cap EntityTables, entities |-> d.entities,
     entity_aliases |-> d.entity_aliases, refs |-> d.refs]

\* C1: rebuild is idempotent: a rebuild run right after a rebuild of the
\* same document set leaves entities, entity_aliases and refs exactly as the
\* first run left them.
C1_Step ==
    (call.op = "rebuild_index" /\ call'.op = "rebuild_index" /\ files' = files) =>
        EntitySnapshot(db') = EntitySnapshot(db)

C1_RebuildIdempotent == [][C1_Step]_vars

\* Two rebuilds in a row over files of which two mention the same entity
\* with different timestamps.
C1_Witness ==
    /\ call.op = "rebuild_index"
    /\ call.rep
    /\ \E r1, r2 \in db.refs : r1.entity = r2.entity /\ r1.ts # r2.ts

\* C2: a rebuild, through rebuild_index or through the standalone script,
\* leaves the rows of sessions and subagent_calls as they were.
C2_Step ==
    call'.op \in {"rebuild_index", "script_rebuild"} =>
        /\ db'.sessions = db.sessions
        /\ db'.subagent_calls = db.subagent_calls

C2_TelemetryUntouched == [][C2_Step]_vars

-----------------------------------------------------------------------------
(* Usage: upsert_session, insert_subagent_call                             *)

\* A row of subagent_calls without its AUTOINCREMENT id.
CallData(r) == [f \in DOMAIN r \ {"id"} |-> r[f]]

\* The rows of subagent_calls as a bag of their data columns.
DataBag(rows) ==
    [x \in {CallData(r) : r \in rows} |-> Cardinality({r \in rows : CallData(r) = x})]

\* C8: storing the calls computed from the same transcript for the same
\* session a second time leaves the rows of subagent_calls (their data
\* columns; the replaced rows get new ids) as the first store left them: one
\* row per computed call, none doubled.
C8_Step ==
    (call'.op = "store_subagent_calls" /\ call'.rep) =>
        /\ DataBag(db'.subagent_calls) = DataBag(db.subagent_calls)
        /\ Cardinality({r \in db'.subagent_calls : r.session_id = call'.arg.session_id})
               = Len(call'.arg.calls)

C8_StoreTwiceIsStoreOnce == [][C8_Step]_vars

\* The same two calls were stored twice in a row for a session.
C8_Witness ==
    /\ call.op = "store_subagent_calls"
    /\ call.rep
    /\ Len(call.arg.calls) = 2
    /\ Cardinality({r \in db.subagent_calls : r.session_id = call.arg.session_id}) = 2

\* C9: upsert_session is keyed by id and idempotent: no two rows of sessions
\* share an id, the session just upserted has its row, no upsert removes a
\* session, and an upsert repeated with the same SessionUsage changes nothing.
C9_OneRowPerId ==
    /\ \A i \in SessionIds : Cardinality({r \in db.sessions : r.id = i}) <= 1
    /\ call.op = "upsert_session" =>
           Cardinality({r \in db.sessions : r.id = call.arg.id}) = 1

C9_Step ==
    /\ {r.id : r \in db.sessions} \subseteq {r.id : r \in db'.sessions}
    /\ (call'.op = "upsert_session" /\ call'.rep) => db'.sessions = db.sessions

C9_UpsertKeyedIdempotent == []C9_OneRowPerId /\ [][C9_Step]_vars

\* The same SessionUsage was upserted twice in a row, next to another session.
C9_Witness ==
    /\ call.op = "upsert_session"
    /\ call.rep
    /\ Cardinality(db.sessions) = 2

AtLeast(r, q) == \A c \in Counters : r[c] >= q[c]

\* C10, as claimed: across any sequence of upsert_session calls for a session
\* id, no stored counter ever decreases.
C10_Decrease ==
    \A q \in db.sessions : \A r \in db'.sessions : q.id = r.id => AtLeast(r, q)

C10_CountersNeverDecrease == [][C10_Decrease]_vars

\* C10, amended: after upsert_session(s) the stored counters of s.id are
\* those of s and the other sessions' rows are as before; so a counter never
\* decreases as long as no call passes a total below the stored one.
C10_Step ==
    call'.op = "upsert_session" =>
        LET s == call'.arg
        IN  /\ \A r \in db'.sessions : r.id = s.id => \A c \in Counters : r[c] = s[c]
            /\ {r \in db'.sessions : r.id # s.id} = {r \in db.sessions : r.id # s.id}
            /\ \A q \in db.sessions : \A r \in db'.sessions :
                   (q.id = r.id /\ (q.id = s.id => AtLeast(s, q))) => AtLeast(r, q)

C10_CountersFollowLastCall == [][C10_Step]_vars

\* An upsert updated the row of a session first stored for another vault.
C10_Witness ==
    /\ call.op = "upsert_session"
    /\ \E r \in db.sessions :
           /\ r.id = call.arg.id
           /\ r.vault_path # call.arg.vault_path
           /\ \A c \in Counters : r[c] = MaxTok

-----------------------------------------------------------------------------
(* Usage correlator: dispatches and completions                            *)

SessionRows(d, session_id) == {r \in d.subagent_calls : r.session_id = session_id}

\* The k-th row in insertion order (AUTOINCREMENT ids grow with every insert).
RowAt(rows, k) == CHOOSE r \in rows : Cardinality({q \in rows : q.id <= r.id}) = k

Completions(t) == {j \in DOMAIN t : IsCompletion(t[j])}

DispatchesBefore(t, j) ==
    {i \in 1..(j - 1) : IsDispatch(t[i]) /\ t[i].dispatch = t[j].result}

CompletionsBefore(t, j) ==
    {i \in 1..(j - 1) : IsCompletion(t[i]) /\ t[i].result = t[j].result}

\* The row of a completion carries the completion-side fields.
CompletionSide(r, e) ==
    r.ended_at = e.ts /\ r.total_tokens = e.tokens /\ r.agent_id = "a1" /\ r.status = "completed"

\* The row of a completion matched with dispatch d also carries d's fields.
Combined(r, d) ==
    /\ r.started_at = d.ts
    /\ r.agent_type = "Archivist"
    /\ r.description = "archive"
    /\ r.prompt_preview = "archive the session"

\* The row of an unmatched completion carries nothing of any dispatch.
Partial(r, e) ==
    r.started_at = e.ts /\ r.agent_type = "unknown" /\ r.description = "" /\ r.prompt_preview = ""

C11_Step ==
    call'.op = "capture_usage" =>
        LET t == transcript
            rows == SessionRows(db', call'.arg)
            comps == Completions(t)
        IN  /\ Cardinality(rows) = Cardinality(comps)
            /\ \A j \in comps :
                   LET r == RowAt(rows, Cardinality({i \in comps : i <= j}))
                       ds == DispatchesBefore(t, j)
                   IN  /\ CompletionSide(r, t[j])
                       /\ (Cardinality(ds) = 1 /\ CompletionsBefore(t, j) = {})
                              => \A i \in ds : Combined(r, t[i])
                       /\ ds = {} => Partial(r, t[j])

\* C11: after a usage capture the session has exactly one subagent_calls row
\* per completion record of the transcript, in transcript order; the row of a
\* completion that follows the one dispatch with its correlation id combines
\* the dispatch's fields with the completion's, and the row of a completion
\* with no dispatch before it carries the completion's fields only.
C11_CorrelationMatching == [][C11_Step]_vars

\* A capture over a transcript with a matched pair and an unmatched completion.
C11_Witness ==
    /\ call.op = "capture_usage"
    /\ \E j, k \in Completions(transcript) :
           /\ Cardinality(DispatchesBefore(transcript, j)) = 1
           /\ CompletionsBefore(transcript, j) = {}
           /\ DispatchesBefore(transcript, k) = {}
    /\ Cardinality(SessionRows(db, "s1")) = 2

-----------------------------------------------------------------------------
(* Delta capture: checkpoint and buffer                                    *)

Last(q) == q[Len(q)]

\* C12, first half: every record of a written delta was read from an entry
\* whose timestamp is greater than the checkpoint the extractor was given.
C12_DeltaIsNewer ==
    (call'.op = "capture_delta" /\ call'.ret = "written") =>
        /\ Len(buffer') = Len(buffer) + 1
        /\ \A k \in DOMAIN Last(buffer') : transcript[Last(buffer')[k].line].ts > checkpoint

\* C12, second half: after a delta that was not discarded the saved checkpoint
\* is not below the previous one.
C12_CheckpointForward ==
    (call'.op = "capture_delta" /\ call'.ret = "written") => checkpoint' >= checkpoint

\* C12: delta extraction returns only entries newer than the checkpoint it was
\* given, and a non-discarded extraction never moves the checkpoint back.
C12_CheckpointMonotonic == [][C12_DeltaIsNewer /\ C12_CheckpointForward]_vars

\* A written delta of a transcript that also holds an entry at the checkpoint
\* and a later entry that is not kept.
C12_Witness ==
    /\ call.op = "capture_delta"
    /\ call.ret = "written"
    /\ call.arg > 0
    /\ \E i \in DOMAIN transcript : transcript[i].ts = call.arg /\ transcript[i].text # ""
    /\ checkpoint > call.arg

\* The transcript lines a run on the first n entries would return.
DeltaLines(n, cp) ==
    LET d == extract_delta(SubSeq(transcript, 1, n), cp)
    IN  {d.records[k].line : k \in DOMAIN d.records}

\* C13, first half: a run whose delta has fewer than 2 qualifying entries
\* writes nothing and keeps the checkpoint.
C13_TrivialDiscarded ==
    (call'.op = "capture_delta" /\ Cardinality(DeltaLines(Len(transcript), checkpoint)) < 2) =>
        /\ call'.ret = "discarded"
        /\ buffer' = buffer
        /\ checkpoint' = checkpoint

\* C13, second half: a written delta holds every entry that a run at the same
\* checkpoint on a shorter transcript returned and discarded.
C13_DiscardedReturnedLater ==
    (call'.op = "capture_delta" /\ call'.ret = "written") =>
        \A n \in 0..Len(transcript) :
            Cardinality(DeltaLines(n, checkpoint)) < 2 =>
                DeltaLines(n, checkpoint) \subseteq
                    {Last(buffer')[k].line : k \in DOMAIN Last(buffer')}

\* C13: a trivial delta is not buffered and does not advance the checkpoint,
\* and its entries are returned by the later run that is buffered.
C13_TrivialSuppressed == [][C13_TrivialDiscarded /\ C13_DiscardedReturnedLater]_vars

\* A discarded run with one qualifying entry, then a written one that holds it.
C13_Witness ==
    /\ call.op = "capture_delta"
    /\ call.ret = "written"
    /\ Len(buffer) = 1
    /\ \E n \in 1..Len(transcript) : Cardinality(DeltaLines(n, call.arg)) = 1

-----------------------------------------------------------------------------
(* Rebuild: documents that are rejected                                    *)

\* A metadata mapping without a timestamp.
NoTimestamp(c) == c.kind = "map" /\ c.ts = 0

\* The batch without the file at path p.
Without(fs, p) == [fs EXCEPT ![p] = NoFile]

\* rebuild_index over a batch, in the order it visits the files.
Rebuilt(d, fs) == rebuild_index(d, fs, CHOOSE o \in ScanOrders(fs) : TRUE)

C14_Step ==
    call'.op = "rebuild_index" =>
        \A p \in Paths :
            NoTimestamp(files[p]) =>
                LET rest == Rebuilt(db, Without(files, p))
                IN  /\ EntitySnapshot(db') = EntitySnapshot(rest.db)
                    /\ report'.docs = rest.report.docs
                    /\ report'.status = rest.report.status
                    /\ \A q \in Paths \ {p} : report'.lines[q] = rest.report.lines[q]
                    /\ report'.lines[p] \in {"", "parse error"}
                    /\ report'.status = "done" => report'.lines[p] = "parse error"
                    /\ report'.lines[p] = "parse error" => report'.errors = rest.report.errors + 1

\* C14: in a rebuild, a document whose metadata has no timestamp is reported
\* as a parse error and counted in Errors, adds no row, and changes nothing
\* else: the store, the other files' lines and the document count are those
\* of a rebuild of the batch without it.
C14_NoTimestampRejected == [][C14_Step]_vars

\* A rebuild that rejected a document without a timestamp and indexed a
\* document that comes after it.
C14_Witness ==
    /\ call.op = "rebuild_index"
    /\ \E p, q \in Paths :
           /\ p < q
           /\ NoTimestamp(files[p])
           /\ report.lines[p] = "parse error"
           /\ report.lines[q] = "ok"
           /\ \E r \in db.refs : r.doc_id = Stems[q]
    /\ report.errors >= 1

\* Metadata that is missing, is not YAML, or is YAML for something other
\* than a key/value mapping.
Malformed(c) == c.kind \in {"nofm", "badyaml", "scalar"}

WellFormed(c) == c.kind = "map" /\ c.ts # 0

\* The references of the document at path p are in refs.
Indexed(d, p, c) ==
    LET doc == parse_document(p, c)
    IN  \A k \in DOMAIN doc.entities :
            \E r \in d.refs : r.entity = doc.entities[k].name /\ r.doc_id = doc.id

C15_Step ==
    call'.op = "rebuild_index" =>
        /\ report'.status = "done"
        /\ \A p \in Paths : Malformed(files[p]) => report'.lines[p] = "parse error"
        /\ report'.errors = Cardinality({p \in Paths : report'.lines[p] = "parse error"})
        /\ \A p \in Paths : WellFormed(files[p]) =>
               report'.lines[p] = "ok" /\ Indexed(db', p, files[p])

\* C15: a rebuild over a batch with malformed documents ends normally, counts
\* every malformed document as an error and indexes every well-formed one.
C15_MalformedNeverAborts == [][C15_Step]_vars

C16_Step ==
    call'.op \in {"rebuild_index", "script_rebuild"} =>
        \A p, q \in Paths :
            (files[p].kind = "nofm" /\ NoTimestamp(files[q])
                 /\ report'.lines[p] # "" /\ report'.lines[q] # "")
                => report'.lines[p] # report'.lines[q]

\* C16: the report of a rebuild gives a document without a metadata block a
\* reason that differs from the reason it gives a document without a
\* timestamp.
C16_ReasonsDistinguished == [][C16_Step]_vars

\* The entities of a mapping-form block written in the list form: one
\* {name, type} entry per name, in document order.
ItemEntries(item) == [k \in DOMAIN item.names |-> [name |-> item.names[k], type |-> item.type]]

RECURSIVE MappingEntries(_, _)
MappingEntries(emap, i) ==
    IF i > Len(emap) THEN <<>> ELSE ItemEntries(emap[i]) \o MappingEntries(emap, i + 1)

ListForm(c) ==
    IF c.form = "dict"
    THEN [c EXCEPT !.form = "list", !.ents = MappingEntries(c.emap, 1), !.emap = <<>>]
    ELSE c

ListForms(fs) == [p \in DOMAIN fs |-> ListForm(fs[p])]

ScriptRebuilt(d, fs) == script_rebuild(d, fs, CHOOSE o \in ScanOrders(fs) : TRUE)

C17_Step ==
    /\ call'.op = "rebuild_index" =>
           LET other == Rebuilt(db, ListForms(files)).db
           IN  db'.entities = other.entities /\ db'.refs = other.refs
    /\ call'.op = "script_rebuild" =>
           LET other == ScriptRebuilt(db, ListForms(files)).db
           IN  db'.entities = other.entities /\ db'.refs = other.refs

\* C17: with either driver, a rebuild over documents whose entities are in
\* the mapping form leaves the entities and refs rows that a rebuild over the
\* same documents written in the list form leaves.
C17_EncodingsAgree == [][C17_Step]_vars

\* The (name, type) pairs that the metadata block of a file lists.
RawPairs(c) == Range(ListForm(c).ents)

\* The (entity, doc_id) keys that the recognized references of the accepted
\* documents call for.
ExpectedRefs(fs) ==
    UNION {{<<x.name, IF fs[p].id = "" THEN Stems[p] ELSE fs[p].id>> :
               x \in {y \in RawPairs(fs[p]) : y.type \in EntityType}} :
           p \in {q \in Paths : WellFormed(fs[q])}}

C18_Step ==
    (call'.op \in {"rebuild_index", "script_rebuild"} /\ report'.status = "done") =>
        /\ \A r \in db'.entities : r.type \in EntityType
        /\ {<<r.entity, r.doc_id>> : r \in db'.refs} = ExpectedRefs(files)
        /\ \A p \in Paths : WellFormed(files[p]) => report'.lines[p] = "ok"

\* C18: after a rebuild that ran to its end, with either driver, every
\* document with a timestamp is accepted, the refs rows are those of the
\* references whose type is recognized, and no entities row has a type outside
\* the recognized set.
C18_UnknownTypeDropped == [][C18_Step]_vars

-----------------------------------------------------------------------------
(* The commands: rebuild outside a vault, update_vault                     *)

\* A directory is inside the vault when it or a directory above it holds the
\* .spellbook marker.
InsideVault(dir) == managed.config # "none" /\ dir \in {"/v", "/v/knowledge"}

C19_Step ==
    (call'.op \in {"sb rebuild", "rebuild_index.py"} /\ ~InsideVault(call'.arg)) =>
        /\ call'.ret = "SystemExit(1)"
        /\ db' = db

\* C19: a rebuild, by sb rebuild or by the standalone script, invoked on a
\* path that is not inside a vault exits with status 1 and leaves the store
\* as it was: no table dropped, created or modified.
C19_NonVaultIsHardError == [][C19_Step]_vars

\* A rebuild refused outside the vault while the store has tables and rows.
C19_Witness ==
    /\ call.op = "sb rebuild"
    /\ call.arg = "/o"
    /\ call.ret = "SystemExit(1)"
    /\ managed.config # "none"
    /\ db.entities # {}
    /\ db.sessions # {}

C20_Step ==
    call'.op = "update_vault" =>
        /\ buffer' = buffer
        /\ klog' = klog
        /\ kdb' = kdb

\* C20: update_vault, whether it syncs or exits with an error, leaves
\* knowledge/buffer/, knowledge/log/ and knowledge/index.db as they were.
C20_UserDataUntouched == [][C20_Step]_vars

\* An update that replaced the managed files of a vault holding a buffer
\* record, documents and an index with rows.
C20_Witness ==
    /\ call.op = "update_vault"
    /\ call.ret = "None"
    /\ managed.claude = "assets"
    /\ managed.gitignore = "other+index.db"
    /\ buffer # <<>>
    /\ kdb.entities # {}
    /\ \E p \in Paths : klog[p].kind = "map"

-----------------------------------------------------------------------------
(* A capture that is killed                                                *)

\* The transcript lines a capture from checkpoint cp has to deliver.
Deliverable(t, cp) ==
    {i \in DOMAIN t : t[i].type \in {"user", "assistant"} /\ t[i].text # "" /\ t[i].ts > cp}

Buffered(buf, i) == \E n \in DOMAIN buf : \E m \in DOMAIN buf[n] : buf[n][m].line = i

C24_CheckpointAfterOutput ==
    (call'.op \in {"capture_delta", "capture_delta_killed"} /\ checkpoint' # checkpoint) =>
        buffer' = Append(buffer, extract_delta(transcript, checkpoint).records)

C24_NothingSkipped ==
    call'.op \in {"capture_delta", "capture_delta_killed"} =>
        \A i \in Deliverable(transcript, checkpoint) :
            Buffered(buffer', i) \/ checkpoint' < transcript[i].ts

\* C24: at-least-once capture: a capture run moves the checkpoint only
\* together with the buffer record of its delta, written first; so whether the
\* run completes or is killed at any point, every entry it had to deliver is
\* either in the buffer or still newer than the checkpoint the next run
\* starts from.
C24_AtLeastOnce == [][C24_CheckpointAfterOutput /\ C24_NothingSkipped]_vars

\* A run killed between its two writes: the buffer record is there, the
\* checkpoint is the one the run started from.
C24_Witness ==
    /\ call.op = "capture_delta_killed"
    /\ call.ret = KillPoints[2]
    /\ checkpoint = call.arg
    /\ buffer # <<>>
    /\ Deliverable(transcript, checkpoint) # {}

-----------------------------------------------------------------------------
(* Usage captures that overlap                                             *)

\* What one usage capture of the session leaves in a store without rows.
SingleCapture(t, session_id) ==
    LET u == compute_usage(t, session_id)
    IN  store_subagent_calls(upsert_session(init_context_schema(NoDb), u.session),
                             session_id, u.calls)

\* C25: overlapping invocations are tolerated: when two usage captures of
\* the same session over the same transcript have both finished, in whatever
\* order their writes were committed, the sessions row and the
\* subagent_calls rows of the session (their data columns) are those that a
\* single capture leaves.
C25_OverlapTolerated ==
    (\A k \in Invocations : capturing[k].pc = "done" /\ capturing[k].session_id = "s1") =>
        /\ db.sessions = SingleCapture(transcript, "s1").sessions
        /\ DataBag(SessionRows(db, "s1")) =
               DataBag(SessionRows(SingleCapture(transcript, "s1"), "s1"))

-----------------------------------------------------------------------------
(* sb init, and where the vault's documents and store live                 *)

C28_Step ==
    (call'.op = "init_vault" /\ call'.ret = "SystemExit(1)") =>
        /\ managed' = managed
        /\ buffer' = buffer
        /\ klog' = klog
        /\ kdb' = kdb
        /\ files' = files
        /\ db' = db

\* C28: init_vault fails without damage: when it exits with an error (the
\* vault exists already, or the knowledge repository cannot be cloned), what
\* was under vault_path before the call is still there, unchanged.
C28_InitFailsWithoutDamage == [][C28_Step]_vars

C29_Step ==
    (call'.op = "sb rebuild" /\ call'.ret = "done") =>
        \A p \in Paths : WellFormed(klog[p]) => Indexed(kdb', p, klog[p])

\* C29: the rebuild command and the rest of the tooling agree on where the
\* documents and the store are: after sb rebuild in a vault made by
\* init_vault, every document placed in the vault's log directory
\* (knowledge/log) has its references in the index.db that get_vault_status
\* counts the entities of (knowledge/index.db).
C29_RebuildIndexesTheVaultLog == [][C29_Step]_vars

-----------------------------------------------------------------------------
(* A query during a rebuild                                                *)

C30_Step ==
    (call'.op = "get_entity_docs" /\ rebuilding.pc # "idle") =>
        LET post == rebuild_index(rebuilding.pre, files, rebuilding.order).db
            seen == [raised |-> call'.ret, docs |-> call'.arg.docs]
        IN  seen \in get_entity_docs(rebuilding.pre, call'.arg.entity) \cup
                     get_entity_docs(post, call'.arg.entity)

\* C30: a read-only query that runs while rebuild_index is in progress
\* returns what it would return on the store as the rebuild found it or on
\* the store as the rebuild leaves it, never the answer of an empty or
\* partly refilled index.
C30_QuerySeesWholeIndex == [][C30_Step]_vars

-----------------------------------------------------------------------------
(* Invariants of the entity tables                                         *)

SelfAlias(d, name) == \E a \in d.entity_aliases : a.alias = name /\ a.canonical = name

\* C21: indexing ensures a self-alias: after add_document and after a
\* rebuild, every row of entities has an entity_aliases row whose alias and
\* canonical are both that entity's name.
C21_SelfAliasEnsured ==
    call.op \in {"add_document", "rebuild_index"} =>
        \A e \in db.entities : SelfAlias(db, e.name)

C22_UniquePerPair ==
    \A r, q \in db.refs : (r.entity = q.entity /\ r.doc_id = q.doc_id) => r = q

C22_RefsNameEntities ==
    \A r \in db.refs : \E e \in db.entities : e.name = r.entity

\* C22: references are unique per (entity, document): in every state reached
\* by add_document calls and rebuilds, refs holds at most one row for each
\* (entity, doc_id) pair, and every refs row names a row of entities.
C22_RefsUniqueAndAnchored == C22_UniquePerPair /\ C22_RefsNameEntities

\* Two documents with the same id and different timestamps that mention the
\* same entity have been indexed, one of them by add_document after a rebuild.
C22_Witness ==
    /\ call.op = "add_document"
    /\ db.refs # {}
    /\ \E d1, d2 \in indexed :
           /\ d1.id = d2.id
           /\ d1.ts # d2.ts
           /\ \E n \in Names : Mentions(d1, n) /\ Mentions(d2, n)

\* C23: alias rows keep referential integrity: in every state reached by
\* add_entity_alias and add_document calls, the canonical of every
\* entity_aliases row is the name of a row of entities.
C23_AliasesNameEntities ==
    \A a \in db.entity_aliases : \E e \in db.entities : e.name = a.canonical

\* C27: in every state reached by add_document calls, every row of entities
\* has created <= last_mentioned.
C27_CreatedBeforeLastMentioned ==
    \A e \in db.entities : e.created <= e.last_mentioned

-----------------------------------------------------------------------------
(* The report of rebuild_index                                             *)

Scanned(fs) == {p \in Paths : fs[p].kind # "absent"}

\* The names referenced by the documents that parse_document accepted.
ReferencedNames(fs) ==
    UNION {{r.name : r \in Range(parse_document(p, fs[p]).entities)} :
              p \in {q \in Scanned(fs) : parse_document(q, fs[q]) \notin {NoDoc, ParseRaises}}}

C26_Step ==
    (call'.op = "rebuild_index" /\ report'.status = "done") =>
        /\ report'.docs + report'.errors = Cardinality(Scanned(files))
        /\ report'.entities = Cardinality(ReferencedNames(files))
        /\ report'.entities = Cardinality(db'.entities)

\* C26: at the end of rebuild_index the reported document count plus the
\* reported error count is the number of files scanned, and the reported
\* entity count is the number of distinct names referenced by the documents
\* that parsed, which is the number of rows of entities.
C26_ReportMatchesStore == [][C26_Step]_vars

\* A rebuild that ended with a rejected file, an indexed document and an
\* entity.
C26_Witness ==
    /\ call.op = "rebuild_index"
    /\ report.status = "done"
    /\ report.errors >= 1
    /\ report.docs >= 1
    /\ report.entities >= 1

====
